---- MODULE Spec2Model ----
(***************************************************************************)
(* DIDComm v2 pack / unpack pipeline.                                      *)
(*                                                                         *)
(* A packed string is modelled by what its JSON holds: the stack of JOSE   *)
(* envelopes around the innermost payload (outermost first) and the        *)
(* payload itself.  Serialising builds one envelope around a string,       *)
(* parsing one envelope gives its payload back only after the checks the   *)
(* peel steps make (recipient secret held, key unwrap, tag, signature).    *)
(***************************************************************************)
EXTENDS Integers, Sequences, FiniteSets, TLC

\* Option<T>: None is the empty sequence, Some(x) a sequence of one element.
None ==
    <<>>
Some(x) ==
    <<x>>
IsSome(o) ==
    Len(o) = 1
IsNone(o) ==
    Len(o) = 0
Unwrap(o) ==
    o[1]

Range(s) ==
    {s[i] : i \in 1..Len(s)}

(***************************************************************************)
(* Bounds of the model.                                                    *)
(***************************************************************************)
\* deepest stack of envelopes of a crafted (not packed) input
MaxLayers ==
    3
\* the invocations of unpack that run side by side
NInvocations ==
    2

(***************************************************************************)
(* Error kinds and errors.                                                 *)
(***************************************************************************)
ErrorKind ==
    {"DIDNotResolved", "DIDUrlNotFound", "SecretNotFound", "Malformed",
     "Unsupported", "IllegalArgument", "InvalidState", "IOError",
     "NoCompatibleCrypto"}

err_msg(kind, text) ==
    [kind |-> kind, text |-> text]

(***************************************************************************)
(* Test vectors: DIDs, keys, DID documents, secrets.                       *)
(***************************************************************************)
ALICE_DID ==
    "did:example:alice"
BOB_DID ==
    "did:example:bob"
UNKNOWN_DID ==
    "did:unknown:alice"
NOT_A_DID ==
    "not-a-did"

ALICE_AUTH_METHOD_25519 ==
    "did:example:alice#key-1"
ALICE_AUTH_METHOD_P256 ==
    "did:example:alice#key-2"
ALICE_AUTH_METHOD_SECPP256K1 ==
    "did:example:alice#key-3"
ALICE_AUTH_METHOD_NOT_IN_SECRETS ==
    "did:example:alice#key-not-in-secrets-1"
ALICE_VERIFICATION_METHOD_KEY_AGREEM_X25519 ==
    "did:example:alice#key-x25519-1"
ALICE_VERIFICATION_METHOD_KEY_AGREEM_P256 ==
    "did:example:alice#key-p256-1"
ALICE_UNKNOWN_FRAGMENT ==
    "did:example:alice#unknown-fragment"

BOB_SECRET_KEY_AGREEMENT_KEY_X25519_1 ==
    "did:example:bob#key-x25519-1"
BOB_SECRET_KEY_AGREEMENT_KEY_X25519_2 ==
    "did:example:bob#key-x25519-2"
BOB_SECRET_KEY_AGREEMENT_KEY_X25519_3 ==
    "did:example:bob#key-x25519-3"
BOB_SECRET_KEY_AGREEMENT_KEY_P256_1 ==
    "did:example:bob#key-p256-1"
BOB_SECRET_KEY_AGREEMENT_KEY_P256_2 ==
    "did:example:bob#key-p256-2"

AliceUrls ==
    {ALICE_AUTH_METHOD_25519, ALICE_AUTH_METHOD_P256, ALICE_AUTH_METHOD_SECPP256K1,
     ALICE_AUTH_METHOD_NOT_IN_SECRETS, ALICE_VERIFICATION_METHOD_KEY_AGREEM_X25519,
     ALICE_VERIFICATION_METHOD_KEY_AGREEM_P256, ALICE_UNKNOWN_FRAGMENT}
BobUrls ==
    {BOB_SECRET_KEY_AGREEMENT_KEY_X25519_1, BOB_SECRET_KEY_AGREEMENT_KEY_X25519_2,
     BOB_SECRET_KEY_AGREEMENT_KEY_X25519_3, BOB_SECRET_KEY_AGREEMENT_KEY_P256_1,
     BOB_SECRET_KEY_AGREEMENT_KEY_P256_2}

\* did_or_url: a DID URL splits into (did, Some(url)), a bare DID into (did, None)
did_or_url(s) ==
    IF s \in AliceUrls THEN <<ALICE_DID, Some(s)>>
    ELSE IF s \in BobUrls THEN <<BOB_DID, Some(s)>>
    ELSE <<s, None>>

is_did(s) ==
    s \in {ALICE_DID, BOB_DID, UNKNOWN_DID} \cup AliceUrls \cup BobUrls

\* curve of the key a kid names
Crv(kid) ==
    CASE kid \in {ALICE_AUTH_METHOD_25519, ALICE_AUTH_METHOD_NOT_IN_SECRETS} -> "Ed25519"
      [] kid = ALICE_AUTH_METHOD_P256 -> "P-256"
      [] kid = ALICE_AUTH_METHOD_SECPP256K1 -> "secp256k1"
      [] kid \in {ALICE_VERIFICATION_METHOD_KEY_AGREEM_X25519,
                  BOB_SECRET_KEY_AGREEMENT_KEY_X25519_1,
                  BOB_SECRET_KEY_AGREEMENT_KEY_X25519_2,
                  BOB_SECRET_KEY_AGREEMENT_KEY_X25519_3} -> "X25519"
      [] kid \in {ALICE_VERIFICATION_METHOD_KEY_AGREEM_P256,
                  BOB_SECRET_KEY_AGREEMENT_KEY_P256_1,
                  BOB_SECRET_KEY_AGREEMENT_KEY_P256_2} -> "P-256"
      [] OTHER -> "unknown"

ALICE_DID_DOC ==
    [did |-> ALICE_DID,
     key_agreements |-> <<ALICE_VERIFICATION_METHOD_KEY_AGREEM_X25519,
                          ALICE_VERIFICATION_METHOD_KEY_AGREEM_P256>>,
     authentications |-> <<ALICE_AUTH_METHOD_NOT_IN_SECRETS, ALICE_AUTH_METHOD_25519,
                           ALICE_AUTH_METHOD_P256, ALICE_AUTH_METHOD_SECPP256K1>>]
BOB_DID_DOC ==
    [did |-> BOB_DID,
     key_agreements |-> <<BOB_SECRET_KEY_AGREEMENT_KEY_X25519_1,
                          BOB_SECRET_KEY_AGREEMENT_KEY_X25519_2,
                          BOB_SECRET_KEY_AGREEMENT_KEY_X25519_3,
                          BOB_SECRET_KEY_AGREEMENT_KEY_P256_1,
                          BOB_SECRET_KEY_AGREEMENT_KEY_P256_2>>,
     authentications |-> <<>>]

ALICE_SECRETS ==
    {ALICE_AUTH_METHOD_25519, ALICE_AUTH_METHOD_P256, ALICE_AUTH_METHOD_SECPP256K1,
     ALICE_VERIFICATION_METHOD_KEY_AGREEM_X25519,
     ALICE_VERIFICATION_METHOD_KEY_AGREEM_P256}
BOB_SECRETS ==
    {BOB_SECRET_KEY_AGREEMENT_KEY_X25519_1, BOB_SECRET_KEY_AGREEMENT_KEY_X25519_2,
     BOB_SECRET_KEY_AGREEMENT_KEY_X25519_3, BOB_SECRET_KEY_AGREEMENT_KEY_P256_1,
     BOB_SECRET_KEY_AGREEMENT_KEY_P256_2}

\* ExampleDIDResolver over [ALICE_DID_DOC, BOB_DID_DOC]: DIDResolver.resolve
resolve(did) ==
    IF did = ALICE_DID THEN Some(ALICE_DID_DOC)
    ELSE IF did = BOB_DID THEN Some(BOB_DID_DOC)
    ELSE None

\* SecretsResolver.find_secrets: the kids, in order, whose secret is held
find_secrets(secrets, kids) ==
    SelectSeq(kids, LAMBDA k : k \in secrets)

\* SecretsResolver.get_secret
get_secret(secrets, kid) ==
    IF kid \in secrets THEN Some(kid) ELSE None

\* a resolver call, as the resolver sees it
Call(op, args) ==
    [op |-> op, args |-> args]

(***************************************************************************)
(* Plaintext messages and their JSON.                                      *)
(***************************************************************************)
PLAINTEXT_TYP ==
    "application/didcomm-plain+json"

\* AttachmentData: exactly one of Base64 / Json / Links (Links carries a hash)
Base64AttachmentData(v) ==
    [variant |-> "base64", value |-> <<v>>, hash |-> None]
JsonAttachmentData(v) ==
    [variant |-> "json", value |-> <<v>>, hash |-> None]
LinksAttachmentData(links, hash) ==
    [variant |-> "links", value |-> links, hash |-> Some(hash)]

Attachment(id, data) ==
    [id |-> id, data |-> data]

Message(id, typ, type, body, from, attachments) ==
    [id |-> id, typ |-> typ, type |-> type, body |-> body, from |-> from,
     attachments |-> attachments]

MESSAGE_SIMPLE ==
    Message("1234567890", PLAINTEXT_TYP, "http://example.com/protocols/lets_do_lunch/1.0/proposal",
            "{messagespecificattribute: and its value}", Some(ALICE_DID), <<>>)
MESSAGE_MINIMAL ==
    Message("1234567890", PLAINTEXT_TYP, "http://example.com/protocols/lets_do_lunch/1.0/proposal",
            "{}", None, <<>>)
MESSAGE_ATTACHMENT_BASE64 ==
    Message("1234567890", PLAINTEXT_TYP, "http://example.com/protocols/lets_do_lunch/1.0/proposal",
            "{messagespecificattribute: and its value}", Some(ALICE_DID),
            <<Attachment("23", Base64AttachmentData("qwerty"))>>)
MESSAGE_ATTACHMENT_MULTI_1 ==
    Message("1234567890", PLAINTEXT_TYP, "http://example.com/protocols/lets_do_lunch/1.0/proposal",
            "{messagespecificattribute: and its value}", Some(ALICE_DID),
            <<Attachment("23", JsonAttachmentData("{foo: bar}")),
              Attachment("24", LinksAttachmentData(<<"1", "2", "3">>, "qwerty"))>>)

\* the valid messages packed in the model
Messages ==
    {MESSAGE_SIMPLE, MESSAGE_MINIMAL, MESSAGE_ATTACHMENT_BASE64, MESSAGE_ATTACHMENT_MULTI_1}

\* serde of AttachmentData: the variant names its own JSON keys
DataToJson(d) ==
    CASE d.variant = "base64" -> [base64 |-> d.value[1]]
      [] d.variant = "json" -> [json |-> d.value[1]]
      [] OTHER -> [links |-> d.value, hash |-> Unwrap(d.hash)]

AttachmentToJson(a) ==
    [id |-> a.id, data |-> DataToJson(a.data)]

\* serde_json::to_string(Message): None fields are skipped
MessageKeys(m) ==
    {"id", "typ", "type", "body"}
        \cup (IF IsSome(m.from) THEN {"from"} ELSE {})
        \cup (IF m.attachments # <<>> THEN {"attachments"} ELSE {})

MessageToJson(m) ==
    [object |-> TRUE,
     fields |-> [k \in MessageKeys(m) |->
        CASE k = "from" -> Unwrap(m.from)
          [] k = "attachments" ->
                [i \in 1..Len(m.attachments) |-> AttachmentToJson(m.attachments[i])]
          [] OTHER -> m[k]]]

\* a JSON text that is no JSON object (a bare string, an empty text)
INVALID_PLAINTEXT_MSG_STRING ==
    [object |-> FALSE, fields |-> <<>>]

DataKeysValid(keys) ==
    keys \in {{"base64"}, {"json"}, {"links", "hash"}}

DataFromJson(j) ==
    CASE DOMAIN j = {"base64"} -> Base64AttachmentData(j.base64)
      [] DOMAIN j = {"json"} -> JsonAttachmentData(j.json)
      [] OTHER -> LinksAttachmentData(j.links, j.hash)

AttachmentJsonValid(a) ==
    /\ {"id", "data"} \subseteq DOMAIN a
    /\ DataKeysValid(DOMAIN a.data)

\* whether serde accepts the JSON text as a Message
JsonIsMessage(j) ==
    /\ j.object
    /\ {"id", "typ", "type", "body"} \subseteq DOMAIN j.fields
    /\ "attachments" \in DOMAIN j.fields =>
          \A i \in 1..Len(j.fields.attachments) :
              AttachmentJsonValid(j.fields.attachments[i])

MessageFromJson(j) ==
    Message(j.fields.id, j.fields.typ, j.fields.type, j.fields.body,
            IF "from" \in DOMAIN j.fields THEN Some(j.fields.from) ELSE None,
            IF "attachments" \in DOMAIN j.fields
            THEN [i \in 1..Len(j.fields.attachments) |->
                    Attachment(j.fields.attachments[i].id,
                               DataFromJson(j.fields.attachments[i].data))]
            ELSE <<>>)

(***************************************************************************)
(* Packed strings: JOSE envelopes around a payload.                        *)
(***************************************************************************)
\* a packed string: its envelopes, outermost first, and the innermost JSON
Str(layers, body) ==
    [layers |-> layers, body |-> body]

\* JWE alg header values
ECDH_ES_A256KW ==
    "ECDH-ES+A256KW"
ECDH_1PU_A256KW ==
    "ECDH-1PU+A256KW"

AnonCryptAlg ==
    {"A256cbcHs512EcdhEsA256kw", "Xc20pEcdhEsA256kw", "A256gcmEcdhEsA256kw"}
AuthCryptAlg ==
    {"A256cbcHs512Ecdh1puA256kw"}
SignAlg ==
    {"EdDSA", "ES256", "ES256K"}

\* AnonCryptAlg -> enc header value, and back
AnonEnc(a) ==
    CASE a = "A256cbcHs512EcdhEsA256kw" -> "A256CBC-HS512"
      [] a = "Xc20pEcdhEsA256kw" -> "XC20P"
      [] OTHER -> "A256GCM"
EncToAnonAlg(enc) ==
    CASE enc = "A256CBC-HS512" -> Some("A256cbcHs512EcdhEsA256kw")
      [] enc = "XC20P" -> Some("Xc20pEcdhEsA256kw")
      [] enc = "A256GCM" -> Some("A256gcmEcdhEsA256kw")
      [] OTHER -> None
EncToAuthAlg(enc) ==
    IF enc = "A256CBC-HS512" THEN Some("A256cbcHs512Ecdh1puA256kw") ELSE None

\* signature algorithm of a signing key, by curve
SignAlgOf(kid) ==
    CASE Crv(kid) = "Ed25519" -> Some("EdDSA")
      [] Crv(kid) = "P-256" -> Some("ES256")
      [] Crv(kid) = "secp256k1" -> Some("ES256K")
      [] OTHER -> None

\* One envelope.
\*   kind     "jwe" or "jws"
\*   alg      JWE: key-agreement alg of the protected header; JWS: signature alg
\*   enc      JWE: content encryption; JWS: ""
\*   kids     JWE: recipients[].header.kid; JWS: signatures[].header.kid
\*   good     the kids whose encrypted_key unwraps the CEK / whose signature was
\*            made with the key the kid names
\*   skid, apu   authcrypt sender headers (apu decoded)
\*   key      the sender static key that took part in ECDH-1PU
\*   intact   protected, iv, ciphertext, tag (JWS: payload) are as produced
\*   complete every required top-level field is present
Envelope(kind, alg, enc, kids, good, skid, apu, key, intact, complete) ==
    [kind |-> kind, alg |-> alg, enc |-> enc, kids |-> kids, good |-> good,
     skid |-> skid, apu |-> apu, key |-> key, intact |-> intact,
     complete |-> complete]

Wrap(layer, payload) ==
    Str(<<layer>> \o payload.layers, payload.body)

\* jws::sign, one signature by kid
jws_sign(payload, kid, alg) ==
    Wrap(Envelope("jws", alg, "", <<kid>>, {kid}, None, None, None, TRUE, TRUE),
         payload)

\* jwe::encrypt, ECDH-ES (skid = None) or ECDH-1PU (skid = Some(sender kid))
jwe_encrypt(payload, alg, enc, skid, to_kids) ==
    Wrap(Envelope("jwe", alg, enc, to_kids, Range(to_kids), skid, skid, skid,
                  TRUE, TRUE),
         payload)

(***************************************************************************)
(* Pack.                                                                   *)
(***************************************************************************)
\* what a pack_* call returns: an error, or the packed string and metadata
PackErr(kind, text) ==
    [err |-> Some(err_msg(kind, text)), out |-> Str(<<>>, INVALID_PLAINTEXT_MSG_STRING),
     from_kid |-> None, sign_from |-> None, to_kids |-> <<>>]
PackOk(out, from_kid, sign_from, to_kids) ==
    [err |-> None, out |-> out, from_kid |-> from_kid, sign_from |-> sign_from,
     to_kids |-> to_kids]

\* Message::pack_plaintext
pack_plaintext(msg) ==
    PackOk(Str(<<>>, MessageToJson(msg)), None, None, <<>>)

\* the keys of all that did_or_kid selects: the one a DID URL names, or all
\* of a bare DID
SelectKids(url, all) ==
    IF IsSome(url) THEN SelectSeq(all, LAMBDA k : k = Unwrap(url)) ELSE all

\* signing payload by sign_by (a DID or a key id of its authentications)
SignPayload(payload, sign_by, secrets) ==
    IF ~is_did(sign_by)
    THEN PackErr("IllegalArgument", "sign_from value is not a valid DID or DID URL")
    ELSE
    LET did == did_or_url(sign_by)[1]
        url == did_or_url(sign_by)[2]
        ddoc == resolve(did)
    IN  IF IsNone(ddoc)
        THEN PackErr("DIDNotResolved", "Unable resolve signer did")
        ELSE
        LET authentications == SelectKids(url, Unwrap(ddoc).authentications)
            found == find_secrets(secrets, authentications)
        IN  IF authentications = <<>>
            THEN PackErr("DIDUrlNotFound", "Signer key id not found in did doc")
            ELSE IF found = <<>>
            THEN PackErr("SecretNotFound", "No signer secrets found")
            ELSE IF IsNone(SignAlgOf(found[1]))
            THEN PackErr("Unsupported", "Unsupported signature algorithm")
            ELSE PackOk(jws_sign(payload, found[1], Unwrap(SignAlgOf(found[1]))),
                        None, Some(found[1]), <<>>)

\* Message::pack_signed
pack_signed(msg, sign_by, secrets) ==
    SignPayload(Str(<<>>, MessageToJson(msg)), sign_by, secrets)

PackEncryptedOptions(protect_sender, enc_alg_auth, enc_alg_anon) ==
    [protect_sender |-> protect_sender, enc_alg_auth |-> enc_alg_auth,
     enc_alg_anon |-> enc_alg_anon, forward |-> FALSE]

\* PackEncryptedOptions::default, with forward off as every caller here sets it
DefaultPackEncryptedOptions ==
    PackEncryptedOptions(FALSE, "A256cbcHs512Ecdh1puA256kw", "Xc20pEcdhEsA256kw")

\* the recipient keys of one curve family
SameCrv(kids, crv) ==
    SelectSeq(kids, LAMBDA k : Crv(k) = crv)

\* anoncrypt: ECDH-ES to the recipient's key-agreement keys of one family
anoncrypt(to, payload, enc_alg_anon) ==
    LET to_did == did_or_url(to)[1]
        to_url == did_or_url(to)[2]
        to_ddoc == resolve(to_did)
    IN  IF IsNone(to_ddoc)
        THEN PackErr("DIDNotResolved", "Recipient did not found")
        ELSE
        LET to_kids == SelectKids(to_url, Unwrap(to_ddoc).key_agreements)
        IN  IF to_kids = <<>>
            THEN PackErr("DIDUrlNotFound", "No recipient keys found")
            ELSE
            LET to_keys == SameCrv(to_kids, Crv(to_kids[1]))
            IN  PackOk(jwe_encrypt(payload, ECDH_ES_A256KW, AnonEnc(enc_alg_anon),
                                   None, to_keys),
                       None, None, to_keys)

\* the first sender key that has recipient keys of its own curve family
FirstCommon(from_kids, to_kids) ==
    SelectSeq(from_kids, LAMBDA f : SameCrv(to_kids, Crv(f)) # <<>>)

\* authcrypt: ECDH-1PU from a sender key-agreement key whose secret is held,
\* wrapped in anoncrypt for the same recipient keys when protect_sender
authcrypt(to, from, payload, options, secrets) ==
    LET to_did == did_or_url(to)[1]
        to_url == did_or_url(to)[2]
        from_did == did_or_url(from)[1]
        from_url == did_or_url(from)[2]
        from_ddoc == resolve(from_did)
        to_ddoc == resolve(to_did)
    IN  IF IsNone(from_ddoc)
        THEN PackErr("DIDNotResolved", "Sender did not found")
        ELSE IF IsNone(to_ddoc)
        THEN PackErr("DIDNotResolved", "Recipient did not found")
        ELSE
        LET from_kids == SelectKids(from_url, Unwrap(from_ddoc).key_agreements)
            from_found == find_secrets(secrets, from_kids)
            to_kids == SelectKids(to_url, Unwrap(to_ddoc).key_agreements)
            common == FirstCommon(from_found, to_kids)
        IN  IF from_kids = <<>>
            THEN PackErr("DIDUrlNotFound", "No sender key agreements found")
            ELSE IF from_found = <<>>
            THEN PackErr("SecretNotFound", "No sender secrets found")
            ELSE IF to_kids = <<>>
            THEN PackErr("DIDUrlNotFound", "No recipient key agreements found")
            ELSE IF common = <<>>
            THEN PackErr("NoCompatibleCrypto",
                         "No common keys between sender and recipient found")
            ELSE
            LET from_kid == common[1]
                to_keys == SameCrv(to_kids, Crv(from_kid))
                auth == jwe_encrypt(payload, ECDH_1PU_A256KW, "A256CBC-HS512",
                                    Some(from_kid), to_keys)
            IN  PackOk(IF options.protect_sender
                       THEN jwe_encrypt(auth, ECDH_ES_A256KW,
                                        AnonEnc(options.enc_alg_anon), None, to_keys)
                       ELSE auth,
                       Some(from_kid), None, to_keys)

\* Message::pack_encrypted: sign (sign_by), then authcrypt (from), then
\* anoncrypt (no from, or protect_sender)
pack_encrypted(msg, to, from, sign_by, options, secrets) ==
    IF ~is_did(to)
    THEN PackErr("IllegalArgument", "to value is not a valid DID or DID URL")
    ELSE IF IsSome(from) /\ ~is_did(Unwrap(from))
    THEN PackErr("IllegalArgument", "from value is not a valid DID or DID URL")
    ELSE
    LET signed == IF IsSome(sign_by)
                  THEN SignPayload(Str(<<>>, MessageToJson(msg)), Unwrap(sign_by), secrets)
                  ELSE pack_plaintext(msg)
    IN  IF IsSome(signed.err) THEN signed
        ELSE
        LET enc == IF IsSome(from)
                   THEN authcrypt(to, Unwrap(from), signed.out, options, secrets)
                   ELSE anoncrypt(to, signed.out, options.enc_alg_anon)
        IN  IF IsSome(enc.err) THEN enc
            ELSE PackOk(enc.out, enc.from_kid, signed.sign_from, enc.to_kids)

(***************************************************************************)
(* Unpack: options, metadata, the three peel steps.                        *)
(***************************************************************************)
UnpackOptions(expect_decrypt_by_all_keys, unwrap_re_wrapping_forward) ==
    [expect_decrypt_by_all_keys |-> expect_decrypt_by_all_keys,
     unwrap_re_wrapping_forward |-> unwrap_re_wrapping_forward]

\* impl Default for UnpackOptions
DefaultUnpackOptions ==
    UnpackOptions(FALSE, FALSE)

\* a variant of InitMetadata that starts from an encrypted message
InitMetadata_Encrypted ==
    [encrypted |-> TRUE,
     authenticated |-> FALSE,
     non_repudiation |-> FALSE,
     anonymous_sender |-> FALSE,
     re_wrapped_in_forward |-> FALSE,
     encrypted_from_kid |-> None,
     encrypted_to_kids |-> None,
     sign_from |-> None,
     enc_alg_auth |-> None,
     enc_alg_anon |-> None,
     sign_alg |-> None,
     signed_message |-> None]

\* a variant of InitMetadata that starts from a message unwrapped from a forward
InitMetadata_ReWrapped ==
    [encrypted |-> FALSE,
     authenticated |-> FALSE,
     non_repudiation |-> FALSE,
     anonymous_sender |-> FALSE,
     re_wrapped_in_forward |-> TRUE,
     encrypted_from_kid |-> None,
     encrypted_to_kids |-> None,
     sign_from |-> None,
     enc_alg_auth |-> None,
     enc_alg_anon |-> None,
     sign_alg |-> None,
     signed_message |-> None]

\* the metadata unpack starts from
InitMetadata ==
    [encrypted |-> FALSE,
     authenticated |-> FALSE,
     non_repudiation |-> FALSE,
     anonymous_sender |-> FALSE,
     re_wrapped_in_forward |-> FALSE,
     encrypted_from_kid |-> None,
     encrypted_to_kids |-> None,
     sign_from |-> None,
     enc_alg_auth |-> None,
     enc_alg_anon |-> None,
     sign_alg |-> None,
     signed_message |-> None]

\* what a peel step returns: Err(e), Ok(None) or Ok(Some(payload)); the metadata
\* as the step left it; the resolver calls it made
PeelErr(kind, text, metadata, calls) ==
    [err |-> Some(err_msg(kind, text)), out |-> None, metadata |-> metadata,
     calls |-> calls]
PeelNone(metadata) ==
    [err |-> None, out |-> None, metadata |-> metadata, calls |-> <<>>]
PeelSome(payload, metadata, calls) ==
    [err |-> None, out |-> Some(payload), metadata |-> metadata, calls |-> calls]

\* the string parses as a JWE / a JWS: every required top-level field is there
IsJwe(msg) ==
    /\ msg.layers # <<>>
    /\ msg.layers[1].kind = "jwe"
    /\ msg.layers[1].complete
IsJws(msg) ==
    /\ msg.layers # <<>>
    /\ msg.layers[1].kind = "jws"
    /\ msg.layers[1].complete

\* the payload of the outermost envelope
Payload(msg) ==
    Str(Tail(msg.layers), msg.body)

\* all kids are DID URLs of one DID
KidsOfOneDid(kids) ==
    \A i \in 1..Len(kids) :
        /\ IsSome(did_or_url(kids[i])[2])
        /\ did_or_url(kids[i])[1] = did_or_url(kids[1])[1]

\* decrypting with the secret of one recipient kid: None, or the error
DecryptErr(jwe, kid, from_kid) ==
    IF (IsNone(from_kid) /\ IsNone(EncToAnonAlg(jwe.enc)))
        \/ (IsSome(from_kid) /\ IsNone(EncToAuthAlg(jwe.enc)))
    THEN Some(err_msg("Unsupported", "Unsupported recipient key agreement method"))
    ELSE IF ~jwe.intact \/ kid \notin jwe.good \/ jwe.key # from_kid
    THEN Some(err_msg("Malformed", "Unable decrypt msg"))
    ELSE None

\* the loop over the recipient kids whose secret is held, from the i-th on:
\* get_secret then decrypt, stopping at the first failure
RECURSIVE DecryptAll(_, _, _, _, _)
DecryptAll(jwe, secrets, tried, i, from_kid) ==
    IF i > Len(tried) THEN [err |-> None, calls |-> <<>>]
    ELSE
    LET call == Call("get_secret", <<tried[i]>>)
        e == IF IsNone(get_secret(secrets, tried[i]))
             THEN Some(err_msg("InvalidState",
                               "Recipient secret not found after existence checking"))
             ELSE DecryptErr(jwe, tried[i], from_kid)
    IN  IF IsSome(e) THEN [err |-> e, calls |-> <<call>>]
        ELSE LET rest == DecryptAll(jwe, secrets, tried, i + 1, from_kid)
             IN  [err |-> rest.err, calls |-> <<call>> \o rest.calls]

\* the kids the loop goes through: the first one held, or every one held when
\* expect_decrypt_by_all_keys
KidsTried(found, opts) ==
    IF opts.expect_decrypt_by_all_keys THEN found ELSE SubSeq(found, 1, 1)

\* _try_unpack_anoncrypt
try_unpack_anoncrypt(msg, secrets, opts, metadata) ==
    IF ~IsJwe(msg) THEN PeelNone(metadata)
    ELSE
    LET jwe == msg.layers[1]
    IN  IF jwe.alg # ECDH_ES_A256KW THEN PeelNone(metadata)
        ELSE IF jwe.kids = <<>>
        THEN PeelErr("Malformed", "No recipient keys found", metadata, <<>>)
        ELSE IF ~KidsOfOneDid(jwe.kids)
        THEN PeelErr("Malformed",
                     "Recipient keys are outside of one did or can't be resolved to key agreement",
                     metadata, <<>>)
        ELSE
        LET md == [metadata EXCEPT !.encrypted_to_kids = Some(jwe.kids),
                                   !.encrypted = TRUE,
                                   !.anonymous_sender = TRUE]
            found == find_secrets(secrets, jwe.kids)
            find == <<Call("find_secrets", jwe.kids)>>
            loop == DecryptAll(jwe, secrets, KidsTried(found, opts), 1, None)
        IN  IF found = <<>>
            THEN PeelErr("SecretNotFound", "No recipient secrets found", md, find)
            ELSE IF IsSome(loop.err)
            THEN [err |-> loop.err, out |-> None, metadata |-> md,
                  calls |-> find \o loop.calls]
            ELSE PeelSome(Payload(msg),
                          [md EXCEPT !.enc_alg_anon = EncToAnonAlg(jwe.enc)],
                          find \o loop.calls)

\* _try_unpack_authcrypt
try_unpack_authcrypt(msg, secrets, opts, metadata) ==
    IF ~IsJwe(msg) THEN PeelNone(metadata)
    ELSE
    LET jwe == msg.layers[1]
    IN  IF jwe.alg # ECDH_1PU_A256KW THEN PeelNone(metadata)
        ELSE IF IsSome(jwe.skid) /\ jwe.apu # jwe.skid
        THEN PeelErr("Malformed", "SKID present, but no apu", metadata, <<>>)
        ELSE IF IsNone(jwe.apu)
        THEN PeelErr("Malformed", "No apu presented for authcrypt", metadata, <<>>)
        ELSE
        LET from_kid == Unwrap(jwe.apu)
            from_did == did_or_url(from_kid)[1]
            from_url == did_or_url(from_kid)[2]
            from_ddoc == resolve(from_did)
            res == <<Call("resolve", <<from_did>>)>>
        IN  IF IsNone(from_url)
            THEN PeelErr("Malformed", "Sender key can't be resolved to key agreement",
                         metadata, <<>>)
            ELSE IF IsNone(from_ddoc)
            THEN PeelErr("DIDNotResolved", "Sender did not found", metadata, res)
            ELSE IF from_kid \notin Range(Unwrap(from_ddoc).key_agreements)
            THEN PeelErr("DIDUrlNotFound", "Sender kid not found in did", metadata, res)
            ELSE IF jwe.kids = <<>>
            THEN PeelErr("Malformed", "No recipient keys found", metadata, res)
            ELSE IF ~KidsOfOneDid(jwe.kids)
            THEN PeelErr("Malformed",
                         "Recipient keys are outside of one did or can't be resolved to key agreement",
                         metadata, res)
            ELSE
            LET md == [metadata EXCEPT !.encrypted_to_kids = Some(jwe.kids),
                                       !.authenticated = TRUE,
                                       !.encrypted = TRUE,
                                       !.encrypted_from_kid = Some(from_kid)]
                found == find_secrets(secrets, jwe.kids)
                find == res \o <<Call("find_secrets", jwe.kids)>>
                loop == DecryptAll(jwe, secrets, KidsTried(found, opts), 1,
                                   Some(from_kid))
            IN  IF found = <<>>
                THEN PeelErr("SecretNotFound", "No recipient secrets found", md, find)
                ELSE IF IsSome(loop.err)
                THEN [err |-> loop.err, out |-> None, metadata |-> md,
                      calls |-> find \o loop.calls]
                ELSE PeelSome(Payload(msg),
                              [md EXCEPT !.enc_alg_auth = EncToAuthAlg(jwe.enc)],
                              find \o loop.calls)

\* verifying the signatures of a JWS from the i-th on: resolve the signer DID,
\* find the kid among its authentications, verify; stop at the first failure
RECURSIVE VerifyAll(_, _)
VerifyAll(jws, i) ==
    IF i > Len(jws.kids) THEN [err |-> None, calls |-> <<>>]
    ELSE
    LET signer_kid == jws.kids[i]
        signer_did == did_or_url(signer_kid)[1]
        signer_url == did_or_url(signer_kid)[2]
        signer_ddoc == resolve(signer_did)
        res == <<Call("resolve", <<signer_did>>)>>
    IN  IF IsNone(signer_url)
        THEN [err |-> Some(err_msg("Malformed",
                                   "Signer key can't be resolved to key agreement")),
              calls |-> <<>>]
        ELSE IF IsNone(signer_ddoc)
        THEN [err |-> Some(err_msg("DIDNotResolved", "Signer did not found")),
              calls |-> res]
        ELSE IF signer_kid \notin Range(Unwrap(signer_ddoc).authentications)
        THEN [err |-> Some(err_msg("DIDUrlNotFound", "Signer kid not found in did")),
              calls |-> res]
        ELSE IF jws.alg \notin SignAlg
        THEN [err |-> Some(err_msg("Unsupported", "Unsupported signature algorithm")),
              calls |-> res]
        ELSE IF ~jws.intact \/ signer_kid \notin jws.good
                \/ SignAlgOf(signer_kid) # Some(jws.alg)
        THEN [err |-> Some(err_msg("Malformed", "Wrong signature")), calls |-> res]
        ELSE LET rest == VerifyAll(jws, i + 1)
             IN  [err |-> rest.err, calls |-> res \o rest.calls]

\* _try_unapck_sign
try_unapck_sign(msg, opts, metadata) ==
    IF ~IsJws(msg) THEN PeelNone(metadata)
    ELSE
    LET jws == msg.layers[1]
        loop == VerifyAll(jws, 1)
    IN  IF jws.kids = <<>>
        THEN PeelErr("Malformed", "Wrong amount of signatures for jws", metadata, <<>>)
        ELSE IF IsSome(loop.err)
        THEN [err |-> loop.err, out |-> None, metadata |-> metadata,
              calls |-> loop.calls]
        ELSE PeelSome(Payload(msg),
                      [metadata EXCEPT !.authenticated = TRUE,
                                       !.non_repudiation = TRUE,
                                       !.sign_from = Some(jws.kids[1]),
                                       !.signed_message = Some(msg),
                                       !.sign_alg = Some(jws.alg)],
                      loop.calls)

\* Message::from_str: the string must be the JSON of a Message (an envelope is
\* a JSON object without id, typ, type, body)
from_str(msg) ==
    IF msg.layers = <<>> /\ JsonIsMessage(msg.body)
    THEN [err |-> None, msg |-> Some(MessageFromJson(msg.body))]
    ELSE [err |-> Some(err_msg("Malformed", "Unable deserialize jwm")), msg |-> None]

\* Message::validate
validate(m) ==
    IF m.typ # PLAINTEXT_TYP
    THEN Some(err_msg("Malformed", "typ must be application/didcomm-plain+json"))
    ELSE None

(***************************************************************************)
(* Message::unpack, the parts between its awaits.                          *)
(***************************************************************************)
\* Result<(Message, UnpackMetadata)>, "none" while unpack has not returned
NoResult ==
    [status |-> "none", msg |-> None, metadata |-> None, err |-> None]
Ok(m, md) ==
    [status |-> "ok", msg |-> Some(m), metadata |-> Some(md), err |-> None]
Err(e) ==
    [status |-> "err", msg |-> None, metadata |-> None, err |-> Some(e)]

\* a variant of ForwardUnsupported that lets the option through
ForwardUnsupported_Never(options) ==
    None

\* if options.unwrap_re_wrapping_forward { Err(Unsupported ...)? }
ForwardUnsupported(options) ==
    IF options.unwrap_re_wrapping_forward
    THEN Some(err_msg("Unsupported", "Forward unwrapping is unsupported by this version"))
    ELSE None

\* a variant of unwrap_or that keeps the string it was given
unwrap_or_msg(peeled, msg) ==
    msg

\* let msg = peeled.as_deref().unwrap_or(msg)
unwrap_or(peeled, msg) ==
    IF IsSome(peeled) THEN Unwrap(peeled) ELSE msg

\* a variant of wrap_err_or_invalid_state that lets the error through
wrap_err_as_it_is(r, kind, text) ==
    r

\* .wrap_err_or_invalid_state(kind, text): an error is replaced by (kind, text)
wrap_err_or_invalid_state(r, kind, text) ==
    IF IsSome(r.err) THEN [r EXCEPT !.err = Some(err_msg(kind, text))] ELSE r

\* a variant of ParseAndValidate that returns the metadata unpack began with
ParseAndValidate_FreshMetadata(msg, metadata) ==
    LET parsed == wrap_err_or_invalid_state(from_str(msg), "Malformed",
                                            "Message is not a valid JWE, JWS or JWM")
    IN  IF IsSome(parsed.err) THEN Err(Unwrap(parsed.err))
        ELSE IF IsSome(validate(Unwrap(parsed.msg)))
        THEN Err(Unwrap(validate(Unwrap(parsed.msg))))
        ELSE Ok(Unwrap(parsed.msg), InitMetadata)

\* a variant of ParseAndValidate without the call of validate
ParseAndValidate_NoValidate(msg, metadata) ==
    LET parsed == wrap_err_or_invalid_state(from_str(msg), "Malformed",
                                            "Message is not a valid JWE, JWS or JWM")
    IN  IF IsSome(parsed.err) THEN Err(Unwrap(parsed.err))
        ELSE Ok(Unwrap(parsed.msg), metadata)

\* Message::from_str(msg).wrap_err_or_invalid_state(..)?.validate()?, then
\* Ok((msg, metadata))
ParseAndValidate(msg, metadata) ==
    LET parsed == wrap_err_or_invalid_state(from_str(msg), "Malformed",
                                            "Message is not a valid JWE, JWS or JWM")
    IN  IF IsSome(parsed.err) THEN Err(Unwrap(parsed.err))
        ELSE IF IsSome(validate(Unwrap(parsed.msg)))
        THEN Err(Unwrap(validate(Unwrap(parsed.msg))))
        ELSE Ok(Unwrap(parsed.msg), metadata)

(***************************************************************************)
(* Inputs of the model.                                                    *)
(***************************************************************************)
ToInputs ==
    {BOB_DID, BOB_SECRET_KEY_AGREEMENT_KEY_X25519_2, BOB_SECRET_KEY_AGREEMENT_KEY_P256_1,
     UNKNOWN_DID}
FromInputs ==
    {None, Some(ALICE_DID), Some(ALICE_VERIFICATION_METHOD_KEY_AGREEM_X25519),
     Some(ALICE_VERIFICATION_METHOD_KEY_AGREEM_P256)}
SignByInputs ==
    {ALICE_DID, ALICE_AUTH_METHOD_25519, ALICE_AUTH_METHOD_P256,
     ALICE_AUTH_METHOD_SECPP256K1, ALICE_AUTH_METHOD_NOT_IN_SECRETS,
     ALICE_UNKNOWN_FRAGMENT, UNKNOWN_DID, NOT_A_DID}
OptSignByInputs ==
    {None, Some(ALICE_DID), Some(ALICE_AUTH_METHOD_25519), Some(ALICE_AUTH_METHOD_P256),
     Some(ALICE_AUTH_METHOD_SECPP256K1)}
PackOptionsInputs ==
    {PackEncryptedOptions(p, "A256cbcHs512Ecdh1puA256kw", a) :
        p \in BOOLEAN, a \in AnonCryptAlg}
UnpackOptionsInputs ==
    {UnpackOptions(a, f) : a \in BOOLEAN, f \in BOOLEAN}
\* what the unpacking side holds: all of Bob's secrets, one of them, or the
\* sender's only
UnpackSecretsInputs ==
    {BOB_SECRETS, {BOB_SECRET_KEY_AGREEMENT_KEY_X25519_1}, ALICE_SECRETS}

\* envelopes of crafted inputs
CRAFT_ANON ==
    Envelope("jwe", ECDH_ES_A256KW, "XC20P", <<BOB_SECRET_KEY_AGREEMENT_KEY_X25519_1>>,
             {BOB_SECRET_KEY_AGREEMENT_KEY_X25519_1}, None, None, None, TRUE, TRUE)
CRAFT_AUTH ==
    Envelope("jwe", ECDH_1PU_A256KW, "A256CBC-HS512",
             <<BOB_SECRET_KEY_AGREEMENT_KEY_X25519_1>>,
             {BOB_SECRET_KEY_AGREEMENT_KEY_X25519_1},
             Some(ALICE_VERIFICATION_METHOD_KEY_AGREEM_X25519),
             Some(ALICE_VERIFICATION_METHOD_KEY_AGREEM_X25519),
             Some(ALICE_VERIFICATION_METHOD_KEY_AGREEM_X25519), TRUE, TRUE)
CRAFT_JWS ==
    Envelope("jws", "EdDSA", "", <<ALICE_AUTH_METHOD_25519>>, {ALICE_AUTH_METHOD_25519},
             None, None, None, TRUE, TRUE)
\* update_field(SIGNED_MSG_ALICE_KEY_1, "payload", ..)
CRAFT_JWS_WRONG_PAYLOAD ==
    [CRAFT_JWS EXCEPT !.intact = FALSE]
\* remove_field(ENCRYPTED_MSG_ANON_XC20P_1, "iv")
CRAFT_ANON_NO_FIELD ==
    [CRAFT_ANON EXCEPT !.complete = FALSE]
\* remove_protected_field(ENCRYPTED_MSG_AUTH_X25519, "apu")
CRAFT_AUTH_NO_APU ==
    [CRAFT_AUTH EXCEPT !.apu = None]

\* a JWS with two signatures, both made with the keys their kids name
CRAFT_JWS_TWO_SIGNATURES ==
    [CRAFT_JWS EXCEPT
        !.kids = <<ALICE_AUTH_METHOD_25519, ALICE_AUTH_METHOD_NOT_IN_SECRETS>>,
        !.good = {ALICE_AUTH_METHOD_25519, ALICE_AUTH_METHOD_NOT_IN_SECRETS}]
\* the same with the second signature altered
CRAFT_JWS_SECOND_WRONG ==
    [CRAFT_JWS_TWO_SIGNATURES EXCEPT !.good = {ALICE_AUTH_METHOD_25519}]

\* an anoncrypt JWE for two recipients; the encrypted_key of the second does
\* not unwrap to the content encryption key
CRAFT_ANON_SECOND_KEY_WRONG ==
    [CRAFT_ANON EXCEPT
        !.kids = <<BOB_SECRET_KEY_AGREEMENT_KEY_X25519_1,
                   BOB_SECRET_KEY_AGREEMENT_KEY_X25519_2>>]
\* the same, authcrypt
CRAFT_AUTH_SECOND_KEY_WRONG ==
    [CRAFT_AUTH EXCEPT
        !.kids = <<BOB_SECRET_KEY_AGREEMENT_KEY_X25519_1,
                   BOB_SECRET_KEY_AGREEMENT_KEY_X25519_2>>]

\* remove_field(ENCRYPTED_MSG_AUTH_X25519, "iv")
CRAFT_AUTH_NO_FIELD ==
    [CRAFT_AUTH EXCEPT !.complete = FALSE]
\* remove_field(SIGNED_MSG_ALICE_KEY_1, "payload")
CRAFT_JWS_NO_FIELD ==
    [CRAFT_JWS EXCEPT !.complete = FALSE]

\* an authcrypt JWE whose apu names another key than its skid
CRAFT_AUTH_WRONG_APU ==
    [CRAFT_AUTH EXCEPT !.apu = Some(ALICE_VERIFICATION_METHOD_KEY_AGREEM_P256)]

\* the envelopes as the packer makes them
SoundLayers ==
    {CRAFT_ANON, CRAFT_AUTH, CRAFT_JWS}

CraftLayers ==
    SoundLayers \cup
    {CRAFT_JWS_WRONG_PAYLOAD, CRAFT_ANON_NO_FIELD, CRAFT_AUTH_NO_APU,
     CRAFT_JWS_TWO_SIGNATURES, CRAFT_JWS_SECOND_WRONG, CRAFT_ANON_SECOND_KEY_WRONG,
     CRAFT_AUTH_SECOND_KEY_WRONG, CRAFT_AUTH_NO_FIELD, CRAFT_JWS_NO_FIELD,
     CRAFT_AUTH_WRONG_APU}

\* INVALID_PLAINTEXT_MSG_WRONG_TYP
INVALID_PLAINTEXT_MSG_WRONG_TYP ==
    [object |-> TRUE,
     fields |-> [id |-> "1234567890", typ |-> "application/didcomm-plain+json-wrong",
                 type |-> "http://example.com/protocols/lets_do_lunch/1.0/proposal",
                 body |-> "{}"]]
\* INVALID_PLAINTEXT_MSG_NO_ID
INVALID_PLAINTEXT_MSG_NO_ID ==
    [object |-> TRUE,
     fields |-> [typ |-> PLAINTEXT_TYP,
                 type |-> "http://example.com/protocols/lets_do_lunch/1.0/proposal",
                 body |-> "{}"]]

\* INVALID_PLAINTEXT_MSG_ATTACHMENTS_NO_DATA
INVALID_PLAINTEXT_MSG_ATTACHMENTS_NO_DATA ==
    [object |-> TRUE,
     fields |-> [id |-> "1234567890", typ |-> PLAINTEXT_TYP,
                 type |-> "http://example.com/protocols/lets_do_lunch/1.0/proposal",
                 body |-> "{}",
                 attachments |-> <<[id |-> "23"]>>]]
\* INVALID_PLAINTEXT_MSG_ATTACHMENTS_LINKS_NO_HASH
INVALID_PLAINTEXT_MSG_ATTACHMENTS_LINKS_NO_HASH ==
    [object |-> TRUE,
     fields |-> [id |-> "1234567890", typ |-> PLAINTEXT_TYP,
                 type |-> "http://example.com/protocols/lets_do_lunch/1.0/proposal",
                 body |-> "{}",
                 attachments |-> <<[id |-> "23", data |-> [links |-> <<"231", "212">>]]>>]]

CraftBodies ==
    {MessageToJson(MESSAGE_SIMPLE), INVALID_PLAINTEXT_MSG_WRONG_TYP,
     INVALID_PLAINTEXT_MSG_NO_ID, INVALID_PLAINTEXT_MSG_STRING,
     INVALID_PLAINTEXT_MSG_ATTACHMENTS_NO_DATA,
     INVALID_PLAINTEXT_MSG_ATTACHMENTS_LINKS_NO_HASH}

\* update_field(msg, field, ..) on the outermost envelope: the content of one
\* integrity-protected field is altered
TamperFields ==
    {"protected", "iv", "ciphertext", "tag", "payload", "signature"}
FieldsOf(layer) ==
    IF layer.kind = "jwe" THEN {"protected", "iv", "ciphertext", "tag"}
    ELSE {"payload", "signature"}
update_field(layer, field) ==
    IF field = "signature" THEN [layer EXCEPT !.good = {}]
    ELSE [layer EXCEPT !.intact = FALSE]

\* the stacks of at most n crafted envelopes, at most one of them other than
\* the packer makes them
Stacks(n) ==
    {s \in UNION {[1..k -> CraftLayers] : k \in 0..n} :
        \A i, j \in DOMAIN s :
            (s[i] \notin SoundLayers /\ s[j] \notin SoundLayers) => i = j}

(***************************************************************************)
(* State.                                                                  *)
(***************************************************************************)
VARIABLES
    pc,        \* where the run is: "idle", "packed", "pack_failed", "anoncrypt",
               \* "authcrypt", "sign", "plaintext", "done"
    call,      \* the pack call that made the input, and what it returned
    input,     \* the string handed to Message::unpack
    options,   \* the UnpackOptions of the unpack call
    secrets,   \* the kids the unpacker's secrets resolver holds
    msg,       \* unpack's msg: the string the next step looks at
    metadata,  \* unpack's metadata
    result,    \* what unpack returned
    peels,     \* the peel steps that returned a payload, in order
    failed,    \* the peel step that returned an error, "" if none did
    calls,     \* the resolver calls unpack made, in order
    binding,   \* a call through the binding: the ErrorCode it returned and the
               \* calls of its callback, in order
    inv,       \* the invocations of unpack that run side by side
    tasks      \* the calls through the binding that run side by side: the
               \* ErrorCode each returned, its task, the calls of its callback

vars ==
    <<pc, call, input, options, secrets, msg, metadata, result, peels, failed, calls,
      binding, inv, tasks>>

EmptyStr ==
    Str(<<>>, INVALID_PLAINTEXT_MSG_STRING)

PackCall(op, m, to, from, sign_by, opts, ret) ==
    [op |-> op, msg |-> m, to |-> to, from |-> from, sign_by |-> sign_by,
     options |-> opts, ret |-> ret]

NoCall ==
    PackCall("none", MESSAGE_MINIMAL, "", None, None, DefaultPackEncryptedOptions,
             PackErr("InvalidState", "no call"))

\* ErrorCode and the calls of OnPackSignedResult
NoBinding ==
    [code |-> None, cb |-> <<>>]
OnSuccess(out, ret) ==
    [fn |-> "success", result |-> Some(out), metadata |-> Some(ret.sign_from),
     err |-> None, err_msg |-> None]
OnError(e) ==
    [fn |-> "error", result |-> None, metadata |-> None, err |-> Some(e.kind),
     err_msg |-> Some(e.text)]

\* create_secrets_resolver() of the binding's tests
ALICE_AND_BOB_SECRETS ==
    ALICE_SECRETS \cup BOB_SECRETS

\* the state of an invocation that has not begun
IdleInvocation ==
    [pc |-> "idle", input |-> EmptyStr, options |-> DefaultUnpackOptions, secrets |-> {},
     msg |-> EmptyStr, metadata |-> InitMetadata, result |-> NoResult,
     pack |-> None, packed |-> None]
NoInvocations ==
    [i \in 1..NInvocations |-> IdleInvocation]

\* a call through the binding that has not been made
IdleTask ==
    [pc |-> "idle", args |-> NoCall, code |-> None, cb |-> <<>>]

Init ==
    /\ pc = "idle"
    /\ call = NoCall
    /\ input = EmptyStr
    /\ options = DefaultUnpackOptions
    /\ secrets = {}
    /\ msg = EmptyStr
    /\ metadata = InitMetadata
    /\ result = NoResult
    /\ peels = <<>>
    /\ failed = ""
    /\ calls = <<>>
    /\ binding = NoBinding
    /\ inv = NoInvocations
    /\ tasks = [i \in 1..NInvocations |-> IdleTask]

\* the caller gets the packed string, or the error
Packed(c) ==
    /\ call' = c
    /\ input' = c.ret.out
    /\ pc' = IF IsSome(c.ret.err) THEN "pack_failed" ELSE "packed"
    /\ UNCHANGED <<options, secrets, msg, metadata, result, peels, failed, calls, binding,
                   inv, tasks>>

PackPlaintext ==
    /\ pc = "idle"
    /\ \E m \in Messages :
        Packed(PackCall("pack_plaintext", m, "", None, None,
                        DefaultPackEncryptedOptions, pack_plaintext(m)))

PackSigned ==
    /\ pc = "idle"
    /\ \E m \in Messages, sign_by \in SignByInputs :
        Packed(PackCall("pack_signed", m, "", None, Some(sign_by),
                        DefaultPackEncryptedOptions,
                        pack_signed(m, sign_by, ALICE_SECRETS)))

\* a variant of PackEncrypted that does not pass sign_by on
PackEncrypted_DropsSignBy ==
    /\ pc = "idle"
    /\ \E m \in Messages, to \in ToInputs, from \in FromInputs,
          sign_by \in OptSignByInputs, opts \in PackOptionsInputs :
        Packed(PackCall("pack_encrypted", m, to, from, sign_by, opts,
                        pack_encrypted(m, to, from, None, opts, ALICE_SECRETS)))

PackEncrypted ==
    /\ pc = "idle"
    /\ \E m \in Messages, to \in ToInputs, from \in FromInputs,
          sign_by \in OptSignByInputs, opts \in PackOptionsInputs :
        Packed(PackCall("pack_encrypted", m, to, from, sign_by, opts,
                        pack_encrypted(m, to, from, sign_by, opts, ALICE_SECRETS)))

\* DIDComm::pack_signed of the binding: the future is handed to the executor
\* and ErrorCode::Success is returned
BindingPackSigned ==
    /\ pc = "idle"
    /\ \E m \in Messages, sign_by \in SignByInputs :
        call' = PackCall("binding_pack_signed", m, "", None, Some(sign_by),
                         DefaultPackEncryptedOptions,
                         PackErr("InvalidState", "no result yet"))
    /\ binding' = [code |-> Some("Success"), cb |-> <<>>]
    /\ pc' = "spawned"
    /\ UNCHANGED <<input, options, secrets, msg, metadata, result, peels, failed, calls,
                   inv, tasks>>

\* a variant of ExecutorRuns that reports every outcome as a success
ExecutorRuns_AlwaysSuccess ==
    /\ pc = "spawned"
    /\ LET ret == pack_signed(call.msg, Unwrap(call.sign_by), ALICE_AND_BOB_SECRETS)
       IN  /\ call' = [call EXCEPT !.ret = ret]
           /\ input' = ret.out
           /\ binding' = [binding EXCEPT !.cb = Append(@, OnSuccess(ret.out, ret))]
           /\ pc' = IF IsSome(ret.err) THEN "pack_failed" ELSE "packed"
    /\ UNCHANGED <<options, secrets, msg, metadata, result, peels, failed, calls, inv,
                   tasks>>

\* the task on EXECUTOR: the future runs, then cb.success or cb.error
ExecutorRuns ==
    /\ pc = "spawned"
    /\ LET ret == pack_signed(call.msg, Unwrap(call.sign_by), ALICE_AND_BOB_SECRETS)
       IN  /\ call' = [call EXCEPT !.ret = ret]
           /\ input' = ret.out
           /\ binding' = [binding EXCEPT !.cb =
                    Append(@, IF IsSome(ret.err) THEN OnError(Unwrap(ret.err))
                              ELSE OnSuccess(ret.out, ret))]
           /\ pc' = IF IsSome(ret.err) THEN "pack_failed" ELSE "packed"
    /\ UNCHANGED <<options, secrets, msg, metadata, result, peels, failed, calls, inv,
                   tasks>>

\* a string that no pack call made
Craft ==
    /\ pc = "idle"
    /\ \E layers \in Stacks(MaxLayers), body \in CraftBodies :
        /\ call' = [NoCall EXCEPT !.op = "craft"]
        /\ input' = Str(layers, body)
        /\ pc' = "packed"
    /\ UNCHANGED <<options, secrets, msg, metadata, result, peels, failed, calls, binding,
                   inv, tasks>>

\* a packed string is altered on its way: one field of its outermost envelope
Tamper ==
    /\ pc = "packed"
    /\ call.op \in {"pack_signed", "pack_encrypted"}
    /\ \E field \in TamperFields :
        /\ field \in FieldsOf(input.layers[1])
        /\ input' = Str(<<update_field(input.layers[1], field)>> \o Tail(input.layers),
                        input.body)
    /\ call' = [call EXCEPT !.op = "tampered"]
    /\ UNCHANGED <<pc, options, secrets, msg, metadata, result, peels, failed, calls,
                   binding, inv, tasks>>

\* unpack up to its first await: the forward check, the fresh metadata
UnpackStart ==
    /\ pc = "packed"
    /\ \E o \in UnpackOptionsInputs, s \in UnpackSecretsInputs :
        /\ options' = o
        /\ secrets' = s
        /\ IF IsSome(ForwardUnsupported(o))
           THEN /\ result' = Err(Unwrap(ForwardUnsupported(o)))
                /\ pc' = "done"
                /\ UNCHANGED <<msg, metadata>>
           ELSE /\ metadata' = InitMetadata
                /\ msg' = input
                /\ pc' = "anoncrypt"
                /\ UNCHANGED result
    /\ UNCHANGED <<call, input, peels, failed, calls, binding, inv, tasks>>

\* a variant of Peeled that takes the error of a peel step for "not this layer"
Peeled_IgnoresErr(r, name, next) ==
    /\ calls' = calls \o r.calls
    /\ msg' = unwrap_or(r.out, msg)
    /\ metadata' = r.metadata
    /\ peels' = IF IsSome(r.out) THEN Append(peels, name) ELSE peels
    /\ pc' = next
    /\ UNCHANGED <<result, failed>>
    /\ UNCHANGED <<call, input, options, secrets, binding, inv, tasks>>

\* a variant of Peeled that hands each peel step a metadata of its own, and
\* forgets it
Peeled_DropsMetadata(r, name, next) ==
    /\ calls' = calls \o r.calls
    /\ IF IsSome(r.err)
       THEN /\ result' = Err(Unwrap(r.err))
            /\ failed' = name
            /\ pc' = "done"
            /\ UNCHANGED <<msg, metadata, peels>>
       ELSE /\ msg' = unwrap_or(r.out, msg)
            /\ peels' = IF IsSome(r.out) THEN Append(peels, name) ELSE peels
            /\ pc' = next
            /\ UNCHANGED <<result, failed, metadata>>
    /\ UNCHANGED <<call, input, options, secrets, binding, inv, tasks>>

\* a variant of Peeled that records the resolver calls of a step before those
\* of the steps that ran earlier
Peeled_CallsFirst(r, name, next) ==
    /\ calls' = r.calls \o calls
    /\ IF IsSome(r.err)
       THEN /\ result' = Err(Unwrap(r.err))
            /\ failed' = name
            /\ pc' = "done"
            /\ UNCHANGED <<msg, metadata, peels>>
       ELSE /\ msg' = unwrap_or(r.out, msg)
            /\ metadata' = r.metadata
            /\ peels' = IF IsSome(r.out) THEN Append(peels, name) ELSE peels
            /\ pc' = next
            /\ UNCHANGED <<result, failed>>
    /\ UNCHANGED <<call, input, options, secrets, binding, inv, tasks>>

\* a peel step returned r: on Err unpack returns it, else msg becomes the
\* payload if there is one and the next step, at pc next, follows
Peeled(r, name, next) ==
    /\ calls' = calls \o r.calls
    /\ IF IsSome(r.err)
       THEN /\ result' = Err(Unwrap(r.err))
            /\ failed' = name
            /\ pc' = "done"
            /\ UNCHANGED <<msg, metadata, peels>>
       ELSE /\ msg' = unwrap_or(r.out, msg)
            /\ metadata' = r.metadata
            /\ peels' = IF IsSome(r.out) THEN Append(peels, name) ELSE peels
            /\ pc' = next
            /\ UNCHANGED <<result, failed>>
    /\ UNCHANGED <<call, input, options, secrets, binding, inv, tasks>>

\* variants of UnpackAnoncrypt: the step left out; the authcrypt step left out
\* after it
UnpackAnoncrypt_Skipped ==
    /\ pc = "anoncrypt"
    /\ pc' = "authcrypt"
    /\ UNCHANGED <<call, input, options, secrets, msg, metadata, result, peels, failed,
                   calls, binding, inv, tasks>>

UnpackAnoncrypt_ThenSign ==
    /\ pc = "anoncrypt"
    /\ Peeled(try_unpack_anoncrypt(msg, secrets, options, metadata),
              "anoncrypt", "sign")

\* a variant of UnpackAnoncrypt that leaves the caller's options behind
UnpackAnoncrypt_DefaultOptions ==
    /\ pc = "anoncrypt"
    /\ Peeled(try_unpack_anoncrypt(msg, secrets, DefaultUnpackOptions, metadata),
              "anoncrypt", "authcrypt")

UnpackAnoncrypt ==
    /\ pc = "anoncrypt"
    /\ Peeled(try_unpack_anoncrypt(msg, secrets, options, metadata),
              "anoncrypt", "authcrypt")

\* a variant of UnpackAuthcrypt: the step left out
UnpackAuthcrypt_Skipped ==
    /\ pc = "authcrypt"
    /\ pc' = "sign"
    /\ UNCHANGED <<call, input, options, secrets, msg, metadata, result, peels, failed,
                   calls, binding, inv, tasks>>

\* a variant of UnpackAuthcrypt that hands the step a metadata of its own
UnpackAuthcrypt_FreshMetadata ==
    /\ pc = "authcrypt"
    /\ Peeled(try_unpack_authcrypt(msg, secrets, options, InitMetadata),
              "authcrypt", "sign")

UnpackAuthcrypt ==
    /\ pc = "authcrypt"
    /\ Peeled(try_unpack_authcrypt(msg, secrets, options, metadata),
              "authcrypt", "sign")

\* variants of UnpackSign: the step left out; the steps begun again on the
\* payload of a signature
UnpackSign_Skipped ==
    /\ pc = "sign"
    /\ pc' = "plaintext"
    /\ UNCHANGED <<call, input, options, secrets, msg, metadata, result, peels, failed,
                   calls, binding, inv, tasks>>

UnpackSign_Again ==
    /\ pc = "sign"
    /\ Peeled(try_unapck_sign(msg, options, metadata), "sign",
              IF IsSome(try_unapck_sign(msg, options, metadata).out)
              THEN "anoncrypt" ELSE "plaintext")

UnpackSign ==
    /\ pc = "sign"
    /\ Peeled(try_unapck_sign(msg, options, metadata), "sign", "plaintext")

UnpackPlaintext ==
    /\ pc = "plaintext"
    /\ result' = ParseAndValidate(msg, metadata)
    /\ pc' = "done"
    /\ UNCHANGED <<call, input, options, secrets, msg, metadata, peels, failed, calls,
                   binding, inv, tasks>>

Next ==
    \/ PackPlaintext
    \/ PackSigned
    \/ PackEncrypted
    \/ BindingPackSigned
    \/ ExecutorRuns
    \/ Craft
    \/ Tamper
    \/ UnpackStart
    \/ UnpackAnoncrypt
    \/ UnpackAuthcrypt
    \/ UnpackSign
    \/ UnpackPlaintext

Spec ==
    Init /\ [][Next]_vars

(***************************************************************************)
(* Invocations side by side: each call of pack_encrypted or unpack has its *)
(* own arguments and locals; the resolvers are shared and only read.  A    *)
(* step is the part of a call between two awaits.                          *)
(***************************************************************************)
\* the strings unpacked side by side
InterleavedInputs ==
    {pack_plaintext(MESSAGE_SIMPLE).out,
     pack_signed(MESSAGE_SIMPLE, ALICE_DID, ALICE_SECRETS).out,
     pack_encrypted(MESSAGE_MINIMAL, BOB_DID, Some(ALICE_DID), Some(ALICE_DID),
                    PackEncryptedOptions(TRUE, "A256cbcHs512Ecdh1puA256kw",
                                         "Xc20pEcdhEsA256kw"),
                    ALICE_SECRETS).out,
     Str(<<CRAFT_ANON, CRAFT_JWS_WRONG_PAYLOAD>>, MessageToJson(MESSAGE_SIMPLE))}
InterleavedOptions ==
    {DefaultUnpackOptions, UnpackOptions(FALSE, TRUE)}
InterleavedSecrets ==
    {BOB_SECRETS, ALICE_SECRETS}
\* the arguments of the pack_encrypted calls made side by side
InterleavedPacks ==
    {[msg |-> MESSAGE_SIMPLE, to |-> BOB_DID, from |-> Some(ALICE_DID), sign_by |-> None],
     [msg |-> MESSAGE_MINIMAL, to |-> UNKNOWN_DID, from |-> None, sign_by |-> None]}

\* what is not part of an invocation
single ==
    <<pc, call, input, options, secrets, msg, metadata, result, peels, failed, calls,
      binding, tasks>>

\* a variant of MetadataOf: one metadata, of the first invocation, for all
MetadataOf_Static(invs, i) ==
    invs[1].metadata

\* let mut metadata: a local of the invocation
MetadataOf(invs, i) ==
    invs[i].metadata

InvUnpackStart ==
    /\ \E i \in 1..NInvocations, s \in InterleavedInputs, o \in InterleavedOptions,
          k \in InterleavedSecrets :
        /\ inv[i].pc = "idle"
        /\ inv' = [inv EXCEPT ![i] =
                IF IsSome(ForwardUnsupported(o))
                THEN [inv[i] EXCEPT !.input = s, !.options = o, !.secrets = k,
                                    !.result = Err(Unwrap(ForwardUnsupported(o))),
                                    !.pc = "done"]
                ELSE [inv[i] EXCEPT !.input = s, !.options = o, !.secrets = k,
                                    !.metadata = InitMetadata, !.msg = s,
                                    !.pc = "anoncrypt"]]
    /\ UNCHANGED single

InvPeeled(i, r, next) ==
    inv' = [inv EXCEPT ![i] =
        IF IsSome(r.err)
        THEN [inv[i] EXCEPT !.result = Err(Unwrap(r.err)), !.pc = "done"]
        ELSE [inv[i] EXCEPT !.msg = unwrap_or(r.out, inv[i].msg),
                            !.metadata = r.metadata, !.pc = next]]

InvUnpackAnoncrypt ==
    /\ \E i \in 1..NInvocations :
        /\ inv[i].pc = "anoncrypt"
        /\ InvPeeled(i, try_unpack_anoncrypt(inv[i].msg, inv[i].secrets, inv[i].options,
                                             MetadataOf(inv, i)), "authcrypt")
    /\ UNCHANGED single

InvUnpackAuthcrypt ==
    /\ \E i \in 1..NInvocations :
        /\ inv[i].pc = "authcrypt"
        /\ InvPeeled(i, try_unpack_authcrypt(inv[i].msg, inv[i].secrets, inv[i].options,
                                             MetadataOf(inv, i)), "sign")
    /\ UNCHANGED single

InvUnpackSign ==
    /\ \E i \in 1..NInvocations :
        /\ inv[i].pc = "sign"
        /\ InvPeeled(i, try_unapck_sign(inv[i].msg, inv[i].options, MetadataOf(inv, i)),
                     "plaintext")
    /\ UNCHANGED single

InvUnpackPlaintext ==
    /\ \E i \in 1..NInvocations :
        /\ inv[i].pc = "plaintext"
        /\ inv' = [inv EXCEPT ![i] =
                [inv[i] EXCEPT !.result = ParseAndValidate(inv[i].msg, MetadataOf(inv, i)),
                               !.pc = "done"]]
    /\ UNCHANGED single

\* pack_encrypted of the binding: the call clones its arguments and hands the
\* future to the executor
InvPackStart ==
    /\ \E i \in 1..NInvocations, a \in InterleavedPacks :
        /\ inv[i].pc = "idle"
        /\ inv' = [inv EXCEPT ![i] = [inv[i] EXCEPT !.pack = Some(a), !.pc = "spawned"]]
    /\ UNCHANGED single

\* the task on EXECUTOR runs the future
InvPackDone ==
    /\ \E i \in 1..NInvocations :
        /\ inv[i].pc = "spawned"
        /\ inv' = [inv EXCEPT ![i] =
                [inv[i] EXCEPT
                    !.packed = Some(pack_encrypted(Unwrap(inv[i].pack).msg,
                                                   Unwrap(inv[i].pack).to,
                                                   Unwrap(inv[i].pack).from,
                                                   Unwrap(inv[i].pack).sign_by,
                                                   DefaultPackEncryptedOptions,
                                                   ALICE_AND_BOB_SECRETS)),
                    !.pc = "done"]]
    /\ UNCHANGED single

NextInterleaved ==
    \/ InvUnpackStart
    \/ InvUnpackAnoncrypt
    \/ InvUnpackAuthcrypt
    \/ InvUnpackSign
    \/ InvUnpackPlaintext
    \/ InvPackStart
    \/ InvPackDone

SpecInterleaved ==
    Init /\ [][NextInterleaved]_vars

(***************************************************************************)
(* Calls through the binding side by side.  Each call clones its           *)
(* arguments, moves them with its callback into a task spawned on EXECUTOR *)
(* and returns; the task awaits the future, then calls the callback.       *)
(***************************************************************************)
\* the arguments of the calls made side by side
BindingCalls ==
    {PackCall("pack_plaintext", MESSAGE_SIMPLE, "", None, None,
              DefaultPackEncryptedOptions, PackErr("InvalidState", "no result yet")),
     PackCall("pack_signed", MESSAGE_SIMPLE, "", None, Some(ALICE_DID),
              DefaultPackEncryptedOptions, PackErr("InvalidState", "no result yet")),
     PackCall("pack_signed", MESSAGE_SIMPLE, "", None, Some(UNKNOWN_DID),
              DefaultPackEncryptedOptions, PackErr("InvalidState", "no result yet")),
     PackCall("pack_encrypted", MESSAGE_SIMPLE, BOB_DID, Some(ALICE_DID), None,
              DefaultPackEncryptedOptions, PackErr("InvalidState", "no result yet")),
     PackCall("pack_encrypted", MESSAGE_SIMPLE, UNKNOWN_DID, None, None,
              DefaultPackEncryptedOptions, PackErr("InvalidState", "no result yet"))}

\* let future = async move { msg.pack_*(..).await }: what the future yields
FutureOf(c) ==
    CASE c.op = "pack_plaintext" -> pack_plaintext(c.msg)
      [] c.op = "pack_signed" ->
            pack_signed(c.msg, Unwrap(c.sign_by), ALICE_AND_BOB_SECRETS)
      [] OTHER ->
            pack_encrypted(c.msg, c.to, c.from, c.sign_by, c.options,
                           ALICE_AND_BOB_SECRETS)

\* a variant of CbOf: one callback, of the first call, for all
CbOf_First(t, i) ==
    1

\* cb: the Box moved into the task of the call
CbOf(t, i) ==
    i

\* EXECUTOR.spawn_ok(..); ErrorCode::Success
Spawned(i, c) ==
    /\ tasks[i].pc = "idle"
    /\ tasks' = [tasks EXCEPT ![i] = [pc |-> "spawned", args |-> c,
                                      code |-> Some("Success"), cb |-> @.cb]]
    /\ UNCHANGED <<pc, call, input, options, secrets, msg, metadata, result, peels,
                   failed, calls, binding, inv>>

\* pack_plaintext of the binding
FfiPackPlaintext ==
    \E i \in 1..NInvocations, c \in BindingCalls :
        c.op = "pack_plaintext" /\ Spawned(i, c)

\* DIDComm::pack_signed of the binding
FfiPackSigned ==
    \E i \in 1..NInvocations, c \in BindingCalls :
        c.op = "pack_signed" /\ Spawned(i, c)

\* pack_encrypted of the binding
FfiPackEncrypted ==
    \E i \in 1..NInvocations, c \in BindingCalls :
        c.op = "pack_encrypted" /\ Spawned(i, c)

\* the executor polls the task: the future runs up to its await of a resolver
TaskStarts(i) ==
    /\ tasks[i].pc = "spawned"
    /\ tasks' = [tasks EXCEPT ![i].pc = "awaiting"]
    /\ UNCHANGED <<pc, call, input, options, secrets, msg, metadata, result, peels,
                   failed, calls, binding, inv>>

\* the resolvers have answered: match future.await { Ok(..) => cb.success(..),
\* Err(err) => cb.error(err.kind(), err.to_string()) }
TaskCompletes(i) ==
    /\ tasks[i].pc = "awaiting"
    /\ LET ret == FutureOf(tasks[i].args)
           done == [tasks EXCEPT ![i].pc = "done", ![i].args.ret = ret]
       IN  tasks' = [done EXCEPT ![CbOf(tasks, i)].cb =
                Append(@, IF IsSome(ret.err) THEN OnError(Unwrap(ret.err))
                          ELSE IF tasks[i].args.op = "pack_plaintext"
                          THEN [OnSuccess(ret.out, ret) EXCEPT !.metadata = None]
                          ELSE OnSuccess(ret.out, ret))]
    /\ UNCHANGED <<pc, call, input, options, secrets, msg, metadata, result, peels,
                   failed, calls, binding, inv>>

NextBinding ==
    \/ FfiPackPlaintext
    \/ FfiPackSigned
    \/ FfiPackEncrypted
    \/ \E i \in 1..NInvocations : TaskStarts(i)
    \/ \E i \in 1..NInvocations : TaskCompletes(i)

\* EXECUTOR is a thread pool that runs every task spawned on it, and the
\* resolvers answer every call
FairBinding ==
    \A i \in 1..NInvocations :
        WF_vars(TaskStarts(i)) /\ WF_vars(TaskCompletes(i))

SpecBinding ==
    Init /\ [][NextBinding]_vars /\ FairBinding

(***************************************************************************)
(* What the tests expect of the test vectors, read off the tests.          *)
(***************************************************************************)
\* unpack returned, and was not asked to unwrap a forward
Returned ==
    pc = "done" /\ ~options.unwrap_re_wrapping_forward

\* the signing kid a sign_by stands for
ExpSignKid(sign_by) ==
    IF sign_by = ALICE_DID THEN ALICE_AUTH_METHOD_25519 ELSE sign_by

\* the signature algorithm of a signing kid
ExpSignAlg(kid) ==
    CASE kid = ALICE_AUTH_METHOD_25519 -> "EdDSA"
      [] kid = ALICE_AUTH_METHOD_P256 -> "ES256"
      [] OTHER -> "ES256K"

\* the sender key-agreement kid of an authcrypt from `from` to `to`
ExpFromKid(from, to) ==
    IF from # ALICE_DID THEN from
    ELSE IF to = BOB_SECRET_KEY_AGREEMENT_KEY_P256_1
    THEN ALICE_VERIFICATION_METHOD_KEY_AGREEM_P256
    ELSE ALICE_VERIFICATION_METHOD_KEY_AGREEM_X25519

\* the recipient kids of a pack_encrypted to `to`, optionally from `from`
ExpToKids(to, from) ==
    IF to # BOB_DID THEN <<to>>
    ELSE IF from = Some(ALICE_VERIFICATION_METHOD_KEY_AGREEM_P256)
    THEN <<BOB_SECRET_KEY_AGREEMENT_KEY_P256_1, BOB_SECRET_KEY_AGREEMENT_KEY_P256_2>>
    ELSE <<BOB_SECRET_KEY_AGREEMENT_KEY_X25519_1, BOB_SECRET_KEY_AGREEMENT_KEY_X25519_2,
           BOB_SECRET_KEY_AGREEMENT_KEY_X25519_3>>

\* unpack of a pack_encrypted string returned, at a recipient that holds the
\* secret of one of the recipient kids
ReturnedEncrypted ==
    /\ Returned
    /\ call.op = "pack_encrypted"
    /\ Range(ExpToKids(call.to, call.from)) \cap secrets # {}

\* the metadata of an unpack that peeled nothing
PlaintextMetadata ==
    [anonymous_sender |-> FALSE, authenticated |-> FALSE, non_repudiation |-> FALSE,
     encrypted |-> FALSE, enc_alg_auth |-> None, enc_alg_anon |-> None,
     sign_alg |-> None, encrypted_from_kid |-> None, encrypted_to_kids |-> None,
     sign_from |-> None, signed_message |-> None, re_wrapped_in_forward |-> FALSE]

\* the JWS of call.msg signed by call.sign_by
ExpJws ==
    Str(<<Envelope("jws", ExpSignAlg(ExpSignKid(Unwrap(call.sign_by))), "",
                   <<ExpSignKid(Unwrap(call.sign_by))>>,
                   {ExpSignKid(Unwrap(call.sign_by))}, None, None, None, TRUE, TRUE)>>,
        MessageToJson(call.msg))

(***************************************************************************)
(* Claims.                                                                 *)
(***************************************************************************)
\* C1: unpack of M.pack_plaintext() with the default UnpackOptions succeeds and
\* returns M with every boolean of the metadata false and every optional field
\* None.
C1_PlaintextRoundTrip ==
    (pc = "done" /\ call.op = "pack_plaintext" /\ options = DefaultUnpackOptions)
        => result = Ok(call.msg, PlaintextMetadata)

C1_Witness ==
    /\ pc = "done"
    /\ call.op = "pack_plaintext"
    /\ call.msg = MESSAGE_ATTACHMENT_MULTI_1
    /\ options = DefaultUnpackOptions
    /\ result.status = "ok"

\* C2: unpack of pack_signed(M, K) succeeds and returns M, non_repudiation and
\* authenticated true, encrypted and anonymous_sender false, sign_from the kid
\* of K (the first authentication key for a bare DID), sign_alg by the curve of
\* K, signed_message the packed string itself.
C2_SignedRoundTrip ==
    (Returned /\ call.op = "pack_signed")
        => result = Ok(call.msg,
              [PlaintextMetadata EXCEPT
                  !.authenticated = TRUE,
                  !.non_repudiation = TRUE,
                  !.sign_from = Some(ExpSignKid(Unwrap(call.sign_by))),
                  !.sign_alg = Some(ExpSignAlg(ExpSignKid(Unwrap(call.sign_by)))),
                  !.signed_message = Some(input)])

C2_Witness ==
    /\ Returned
    /\ call.op = "pack_signed"
    /\ call.sign_by = Some(ALICE_DID)
    /\ result.status = "ok"
    /\ Unwrap(result.metadata).sign_from = Some(ALICE_AUTH_METHOD_25519)
    /\ Unwrap(result.metadata).signed_message = Some(input)

\* C3 as stated: unpack of pack_encrypted(M, R, S, K, options) returns M with
\* encrypted, authenticated = (S is some), non_repudiation = (K is some),
\* anonymous_sender = options.protect_sender, encrypted_to_kids the resolved
\* recipient kids.
C3_Original ==
    ReturnedEncrypted
        => /\ result.status = "ok"
           /\ Unwrap(result.msg) = call.msg
           /\ Unwrap(result.metadata).encrypted
           /\ Unwrap(result.metadata).authenticated = IsSome(call.from)
           /\ Unwrap(result.metadata).non_repudiation = IsSome(call.sign_by)
           /\ Unwrap(result.metadata).anonymous_sender = call.options.protect_sender
           /\ Unwrap(result.metadata).encrypted_to_kids = Some(call.ret.to_kids)

\* C3 amended: unpack of pack_encrypted(M, R, S, K, options) returns M with
\* encrypted, authenticated = (S is some or K is some), non_repudiation =
\* (K is some), anonymous_sender = (options.protect_sender or S is none),
\* encrypted_to_kids the resolved recipient kids.
C3_EncryptedRoundTrip ==
    ReturnedEncrypted
        => /\ result.status = "ok"
           /\ Unwrap(result.msg) = call.msg
           /\ Unwrap(result.metadata).encrypted
           /\ Unwrap(result.metadata).authenticated
                = (IsSome(call.from) \/ IsSome(call.sign_by))
           /\ Unwrap(result.metadata).non_repudiation = IsSome(call.sign_by)
           /\ Unwrap(result.metadata).anonymous_sender
                = (call.options.protect_sender \/ IsNone(call.from))
           /\ Unwrap(result.metadata).encrypted_to_kids = Some(call.ret.to_kids)
           /\ call.ret.to_kids = ExpToKids(call.to, call.from)

C3_Witness ==
    /\ ReturnedEncrypted
    /\ IsSome(call.from)
    /\ IsSome(call.sign_by)
    /\ call.options.protect_sender
    /\ call.to = BOB_DID
    /\ result.status = "ok"
    /\ Unwrap(result.metadata).encrypted_to_kids = Some(ExpToKids(BOB_DID, call.from))

\* C4: unpack of an anoncrypt-only pack_encrypted (no from, no sign_by,
\* protect_sender at its default) returns the message with encrypted and
\* anonymous_sender true, authenticated and non_repudiation false, enc_alg_anon
\* the algorithm chosen at pack time, enc_alg_auth and encrypted_from_kid None,
\* no signature field set.
C4_AnoncryptOnly ==
    (ReturnedEncrypted /\ IsNone(call.from) /\ IsNone(call.sign_by)
        /\ ~call.options.protect_sender)
        => result = Ok(call.msg,
              [PlaintextMetadata EXCEPT
                  !.encrypted = TRUE,
                  !.anonymous_sender = TRUE,
                  !.enc_alg_anon = Some(call.options.enc_alg_anon),
                  !.encrypted_to_kids = Some(ExpToKids(call.to, None))])

C4_Witness ==
    /\ ReturnedEncrypted
    /\ IsNone(call.from)
    /\ IsNone(call.sign_by)
    /\ ~call.options.protect_sender
    /\ call.options.enc_alg_anon = "A256gcmEcdhEsA256kw"
    /\ result.status = "ok"
    /\ Unwrap(result.metadata).enc_alg_anon = Some("A256gcmEcdhEsA256kw")

\* C5: unpack of an authcrypt-only pack_encrypted (from set, no sign_by,
\* protect_sender false) returns the message with encrypted and authenticated
\* true, anonymous_sender and non_repudiation false, enc_alg_auth
\* A256cbcHs512Ecdh1puA256kw, enc_alg_anon None, encrypted_from_kid the sender
\* key-agreement kid (the resolved kid when from was a bare DID).
C5_AuthcryptOnly ==
    (ReturnedEncrypted /\ IsSome(call.from) /\ IsNone(call.sign_by)
        /\ ~call.options.protect_sender)
        => result = Ok(call.msg,
              [PlaintextMetadata EXCEPT
                  !.encrypted = TRUE,
                  !.authenticated = TRUE,
                  !.enc_alg_auth = Some("A256cbcHs512Ecdh1puA256kw"),
                  !.encrypted_from_kid = Some(ExpFromKid(Unwrap(call.from), call.to)),
                  !.encrypted_to_kids = Some(ExpToKids(call.to, call.from))])

C5_Witness ==
    /\ ReturnedEncrypted
    /\ call.from = Some(ALICE_DID)
    /\ call.to = BOB_SECRET_KEY_AGREEMENT_KEY_P256_1
    /\ IsNone(call.sign_by)
    /\ ~call.options.protect_sender
    /\ result.status = "ok"
    /\ Unwrap(result.metadata).encrypted_from_kid
         = Some(ALICE_VERIFICATION_METHOD_KEY_AGREEM_P256)

\* C6: with from set and protect_sender true the packed string is an anoncrypt
\* JWE around the authcrypt JWE, and unpack peels both, anoncrypt first: the
\* result has anonymous_sender, authenticated and encrypted true, enc_alg_anon
\* the chosen algorithm, enc_alg_auth the auth algorithm, encrypted_from_kid
\* the sender kid of the inner authcrypt envelope.
C6_ProtectedSender ==
    (ReturnedEncrypted /\ IsSome(call.from) /\ call.options.protect_sender)
        => /\ Len(input.layers) >= 2
           /\ input.layers[1].alg = ECDH_ES_A256KW
           /\ input.layers[2].alg = ECDH_1PU_A256KW
           /\ IsNone(input.layers[1].skid)
           /\ result.status = "ok"
           /\ Unwrap(result.msg) = call.msg
           /\ SubSeq(peels, 1, 2) = <<"anoncrypt", "authcrypt">>
           /\ Unwrap(result.metadata).anonymous_sender
           /\ Unwrap(result.metadata).authenticated
           /\ Unwrap(result.metadata).encrypted
           /\ Unwrap(result.metadata).enc_alg_anon = Some(call.options.enc_alg_anon)
           /\ Unwrap(result.metadata).enc_alg_auth = Some("A256cbcHs512Ecdh1puA256kw")
           /\ Unwrap(result.metadata).encrypted_from_kid = input.layers[2].skid
           /\ input.layers[2].skid = Some(ExpFromKid(Unwrap(call.from), call.to))

C6_Witness ==
    /\ ReturnedEncrypted
    /\ call.from = Some(ALICE_VERIFICATION_METHOD_KEY_AGREEM_P256)
    /\ call.options.protect_sender
    /\ IsNone(call.sign_by)
    /\ result.status = "ok"
    /\ peels = <<"anoncrypt", "authcrypt">>

\* C7: unpack of a pack_encrypted with sign_by set and no from (signed, then
\* anoncrypted) returns the message with encrypted, anonymous_sender,
\* authenticated and non_repudiation true, sign_from the signer kid, sign_alg
\* by the signer key, enc_alg_auth and encrypted_from_kid None.
C7_AnoncryptSigned ==
    (ReturnedEncrypted /\ IsNone(call.from) /\ IsSome(call.sign_by))
        => /\ result.status = "ok"
           /\ Unwrap(result.msg) = call.msg
           /\ Unwrap(result.metadata) =
                [PlaintextMetadata EXCEPT
                    !.encrypted = TRUE,
                    !.anonymous_sender = TRUE,
                    !.authenticated = TRUE,
                    !.non_repudiation = TRUE,
                    !.sign_from = Some(ExpSignKid(Unwrap(call.sign_by))),
                    !.sign_alg = Some(ExpSignAlg(ExpSignKid(Unwrap(call.sign_by)))),
                    !.enc_alg_anon = Some(call.options.enc_alg_anon),
                    !.encrypted_to_kids = Some(ExpToKids(call.to, None)),
                    !.signed_message = Unwrap(result.metadata).signed_message]

C7_Witness ==
    /\ ReturnedEncrypted
    /\ IsNone(call.from)
    /\ call.sign_by = Some(ALICE_AUTH_METHOD_SECPP256K1)
    /\ result.status = "ok"
    /\ Unwrap(result.metadata).sign_alg = Some("ES256K")
    /\ peels = <<"anoncrypt", "sign">>

\* C8: the signed_message unpack returns is the JWS string the sign step
\* peeled: for a signed message inside an encryption layer that is the
\* decrypted payload, not the packed JWE string; it is None when no signature
\* layer was peeled.
C8_SignedMessageIsPeeledJws ==
    (Returned /\ result.status = "ok")
        => IF \E i \in 1..Len(peels) : peels[i] = "sign"
           THEN /\ peels[Len(peels)] = "sign"
                /\ Unwrap(result.metadata).signed_message
                     = Some(Str(SubSeq(input.layers, Len(peels), Len(input.layers)),
                                input.body))
                /\ input.layers[Len(peels)].kind = "jws"
                /\ Len(peels) > 1 => Unwrap(result.metadata).signed_message # Some(input)
                /\ (call.op = "pack_encrypted")
                     => Unwrap(result.metadata).signed_message = Some(ExpJws)
           ELSE Unwrap(result.metadata).signed_message = None

C8_Witness ==
    /\ ReturnedEncrypted
    /\ IsSome(call.from)
    /\ IsSome(call.sign_by)
    /\ result.status = "ok"
    /\ peels = <<"authcrypt", "sign">>
    /\ Unwrap(result.metadata).signed_message = Some(ExpJws)
    /\ Unwrap(result.metadata).signed_message # Some(input)

\* C9: with options.unwrap_re_wrapping_forward = true unpack fails, for every
\* input, with Unsupported "Forward unwrapping is unsupported by this version",
\* before any layer is looked at and before any resolver call; with
\* unwrap_re_wrapping_forward = false that error is never returned.
ForwardError ==
    [kind |-> "Unsupported", text |-> "Forward unwrapping is unsupported by this version"]

NotValidError ==
    [kind |-> "Malformed", text |-> "Message is not a valid JWE, JWS or JWM"]

PeelRank(name) ==
    CASE name = "anoncrypt" -> 1
      [] name = "authcrypt" -> 2
      [] OTHER -> 3

PeelsInOrder ==
    /\ Len(peels) <= 3
    /\ \A i, j \in 1..Len(peels) : i < j => PeelRank(peels[i]) < PeelRank(peels[j])

\* the place of an envelope in the order anoncrypt, authcrypt, signed
LayerRank(layer) ==
    IF layer.kind = "jws" THEN 3
    ELSE IF layer.alg = ECDH_1PU_A256KW THEN 2
    ELSE 1

\* the envelopes of the string are nested in another order than anoncrypt,
\* authcrypt, signed, or one kind is repeated
Misnested(s) ==
    \E i, j \in 1..Len(s.layers) :
        i < j /\ LayerRank(s.layers[i]) >= LayerRank(s.layers[j])

\* C10 as stated: ... and an input whose layers are nested in another order, or
\* repeated, is never unpacked successfully but ends with Malformed "Message is
\* not a valid JWE, JWS or JWM".
C10_Original ==
    /\ PeelsInOrder
    /\ (Returned /\ Misnested(input)) => result = Err(NotValidError)

\* C10 amended: ... and an input whose layers are nested in another order, or
\* repeated, is never unpacked successfully: it ends with an error, which is
\* Malformed "Message is not a valid JWE, JWS or JWM" whenever no peel step
\* failed before the plaintext stage (else it is the error of that peel step).
C10_PeelOrder ==
    /\ PeelsInOrder
    /\ (Returned /\ Misnested(input))
        => /\ result.status = "err"
           /\ failed = "" => result = Err(NotValidError)

C10_Witness ==
    /\ Returned
    /\ input.layers = <<CRAFT_JWS, CRAFT_ANON>>
    /\ peels = <<"sign">>
    /\ failed = ""
    /\ result = Err(NotValidError)

\* the peel step that opens an envelope
StepOf(layer) ==
    IF layer.kind = "jws" THEN "sign"
    ELSE IF layer.alg = ECDH_1PU_A256KW THEN "authcrypt"
    ELSE "anoncrypt"

\* the unpacker holds the secret of a recipient of the outermost envelope, if
\* that is a JWE
HoldsOuterSecret ==
    (input.layers # <<>> /\ input.layers[1].kind = "jwe")
        => Range(input.layers[1].kids) \cap secrets # {}

\* C11: when the content of an integrity-protected field of a packed message
\* (protected, iv, ciphertext, tag of a JWE; payload or a signature of a JWS)
\* was altered, unpack never returns a message, and the recipient gets an error
\* of kind Malformed, from the peel step of the altered envelope.
C11_AlteredIsMalformed ==
    /\ (pc = "done" /\ call.op = "tampered") => result.status = "err"
    /\ (Returned /\ call.op = "tampered" /\ HoldsOuterSecret)
        => /\ Unwrap(result.err).kind = "Malformed"
           /\ failed = StepOf(input.layers[1])
           /\ peels = <<>>

C11_Witness ==
    /\ Returned
    /\ call.op = "tampered"
    /\ HoldsOuterSecret
    /\ Len(input.layers) = 3
    /\ ~input.layers[1].intact
    /\ failed = "anoncrypt"
    /\ result = Err(err_msg("Malformed", "Unable decrypt msg"))

\* the place in the input of the envelope the sign step looks at: after the
\* envelopes the decryption steps peeled
SignPlace ==
    Cardinality({i \in 1..Len(peels) : peels[i] \in {"anoncrypt", "authcrypt"}}) + 1

\* the sign step was reached and the envelope it looked at is a JWS whose
\* signers all resolve to authentication keys
SignStepOnJws ==
    /\ Returned
    /\ failed \notin {"anoncrypt", "authcrypt"}
    /\ SignPlace <= Len(input.layers)
    /\ input.layers[SignPlace].kind = "jws"
    /\ input.layers[SignPlace].complete
    /\ input.layers[SignPlace].kids # <<>>
    /\ input.layers[SignPlace].alg \in SignAlg
    /\ Range(input.layers[SignPlace].kids) \subseteq Range(ALICE_DID_DOC.authentications)

\* the signature of kid in the JWS verifies
Verifies(jws, kid) ==
    /\ jws.intact
    /\ kid \in jws.good
    /\ kid \in Range(ALICE_DID_DOC.authentications)
    /\ ExpSignAlg(kid) = jws.alg \/ (kid = ALICE_AUTH_METHOD_NOT_IN_SECRETS
                                        /\ jws.alg = "EdDSA")

\* C12: in the sign step, a signature of the JWS that does not verify, even
\* when the others do, ends unpack with Malformed "Wrong signature";
\* non_repudiation = true and sign_from are in a result only when every
\* signature of the JWS verified against the key resolved for its kid.
C12_AnyWrongSignatureFails ==
    /\ (SignStepOnJws
            /\ \E i \in 1..Len(input.layers[SignPlace].kids) :
                    ~Verifies(input.layers[SignPlace], input.layers[SignPlace].kids[i]))
        => /\ result = Err(err_msg("Malformed", "Wrong signature"))
           /\ failed = "sign"
    /\ (Returned /\ result.status = "ok"
            /\ (Unwrap(result.metadata).non_repudiation
                    \/ IsSome(Unwrap(result.metadata).sign_from)))
        => /\ Unwrap(result.metadata).non_repudiation
           /\ IsSome(Unwrap(result.metadata).sign_from)
           /\ SignStepOnJws
           /\ peels[Len(peels)] = "sign"
           /\ \A i \in 1..Len(input.layers[SignPlace].kids) :
                  Verifies(input.layers[SignPlace], input.layers[SignPlace].kids[i])

C12_Witness ==
    /\ Returned
    /\ input.layers = <<CRAFT_ANON, CRAFT_JWS_SECOND_WRONG>>
    /\ peels = <<"anoncrypt">>
    /\ failed = "sign"
    /\ result = Err(err_msg("Malformed", "Wrong signature"))
    /\ Len(calls) = 4

\* the number of envelopes the decryption steps peeled
EncPeels ==
    Cardinality({i \in 1..Len(peels) : peels[i] \in {"anoncrypt", "authcrypt"}})

\* C13: an encrypted message is unpacked only by a caller whose secrets
\* resolver holds the secret of a kid among the recipients of each JWE; a caller
\* that holds none of them gets SecretNotFound and no plaintext; a message
\* packed with the sender's secrets only is unpacked with the recipient's
\* secrets only.
C13_RecipientSecretNeeded ==
    /\ (Returned /\ result.status = "ok")
        => \A i \in 1..EncPeels :
              /\ input.layers[i].kind = "jwe"
              /\ Range(input.layers[i].kids) \cap secrets # {}
    /\ (Returned
            /\ (call.op = "pack_encrypted"
                    \/ (input.layers # <<>> /\ input.layers[1] \in {CRAFT_ANON, CRAFT_AUTH}))
            /\ Range(input.layers[1].kids) \cap secrets = {})
        => /\ result.status = "err"
           /\ Unwrap(result.err).kind = "SecretNotFound"
           /\ failed = StepOf(input.layers[1])
           /\ peels = <<>>
    /\ (Returned /\ call.op = "pack_encrypted" /\ secrets = BOB_SECRETS)
        => /\ BOB_SECRETS \cap ALICE_SECRETS = {}
           /\ result.status = "ok"
           /\ Unwrap(result.msg) = call.msg
           /\ EncPeels >= 1

C13_Witness ==
    /\ Returned
    /\ call.op = "pack_encrypted"
    /\ IsSome(call.from)
    /\ ~call.options.protect_sender
    /\ secrets = ALICE_SECRETS
    /\ failed = "authcrypt"
    /\ Unwrap(result.err).kind = "SecretNotFound"

\* C14: with expect_decrypt_by_all_keys an encrypted message is unpacked only
\* if the encrypted_key of every recipient kid whose secret the resolver holds
\* unwraps to the content encryption key, and a held key that does not ends
\* unpack with Malformed; without the option one held key is enough.
C14_ExpectDecryptByAllKeys ==
    /\ (Returned /\ options.expect_decrypt_by_all_keys /\ result.status = "ok")
        => \A i \in 1..EncPeels :
              (Range(input.layers[i].kids) \cap secrets) \subseteq input.layers[i].good
    /\ (Returned /\ options.expect_decrypt_by_all_keys
            /\ input.layers # <<>>
            /\ input.layers[1] \in {CRAFT_ANON_SECOND_KEY_WRONG, CRAFT_AUTH_SECOND_KEY_WRONG}
            /\ secrets = BOB_SECRETS)
        => /\ result.status = "err"
           /\ Unwrap(result.err).kind = "Malformed"
           /\ failed = StepOf(input.layers[1])
    /\ (Returned /\ ~options.expect_decrypt_by_all_keys
            /\ input.layers # <<>>
            /\ input.layers[1] \in {CRAFT_ANON_SECOND_KEY_WRONG, CRAFT_AUTH_SECOND_KEY_WRONG}
            /\ BOB_SECRET_KEY_AGREEMENT_KEY_X25519_1 \in secrets)
        => /\ peels # <<>>
           /\ peels[1] = StepOf(input.layers[1])
           /\ (Len(input.layers) = 1 /\ input.body = MessageToJson(MESSAGE_SIMPLE))
                => result.status = "ok"
    /\ (Returned /\ call.op = "pack_encrypted" /\ secrets = BOB_SECRETS)
        => result.status = "ok"

C14_Witness ==
    /\ Returned
    /\ options.expect_decrypt_by_all_keys
    /\ input.layers = <<CRAFT_ANON_SECOND_KEY_WRONG>>
    /\ secrets = BOB_SECRETS
    /\ failed = "anoncrypt"
    /\ result = Err(err_msg("Malformed", "Unable decrypt msg"))
    /\ Len(calls) = 3

C14_WitnessOneKey ==
    /\ Returned
    /\ ~options.expect_decrypt_by_all_keys
    /\ input.layers = <<CRAFT_ANON_SECOND_KEY_WRONG>>
    /\ secrets = BOB_SECRETS
    /\ result.status = "ok"

\* C15: an envelope that lacks a required top-level field (protected, iv,
\* ciphertext, tag of a JWE; payload, signatures of a JWS) is recognised by no
\* peel step: each step leaves the string and the metadata as they were, no
\* resolver is called for it, and unpack ends at the plaintext stage with
\* Malformed "Message is not a valid JWE, JWS or JWM".
C15_MissingFieldNotRecognised ==
    /\ \A i \in 1..Len(peels) : input.layers[i].complete
    /\ (pc \in {"authcrypt", "sign", "plaintext", "done"}
            /\ ~options.unwrap_re_wrapping_forward
            /\ input.layers # <<>>
            /\ ~input.layers[1].complete)
        => /\ msg = input
           /\ metadata = PlaintextMetadata
           /\ peels = <<>>
           /\ calls = <<>>
           /\ failed = ""
           /\ pc = "done" => result = Err(NotValidError)
    /\ (Returned /\ failed = ""
            /\ Len(peels) < Len(input.layers)
            /\ ~input.layers[Len(peels) + 1].complete)
        => result = Err(NotValidError)

C15_Witness ==
    /\ Returned
    /\ input.layers = <<CRAFT_JWS_NO_FIELD, CRAFT_AUTH>>
    /\ input.body = MessageToJson(MESSAGE_SIMPLE)
    /\ secrets = BOB_SECRETS
    /\ msg = input
    /\ result = Err(NotValidError)

\* the place in the input of the envelope the authcrypt step looks at
AuthPlace ==
    IF peels # <<>> /\ peels[1] = "anoncrypt" THEN 2 ELSE 1

\* the authcrypt step was reached and looked at an ECDH-1PU JWE that has a
\* skid, and no apu or an apu that is not the skid
AuthStepOnSkidWithoutApu ==
    /\ Returned
    /\ failed # "anoncrypt"
    /\ AuthPlace <= Len(input.layers)
    /\ input.layers[AuthPlace].kind = "jwe"
    /\ input.layers[AuthPlace].complete
    /\ input.layers[AuthPlace].alg = ECDH_1PU_A256KW
    /\ IsSome(input.layers[AuthPlace].skid)
    /\ input.layers[AuthPlace].apu # input.layers[AuthPlace].skid

C16_WitnessNoApu ==
    /\ AuthStepOnSkidWithoutApu
    /\ input.layers = <<CRAFT_AUTH_NO_APU, CRAFT_JWS>>
    /\ result = Err(err_msg("Malformed", "SKID present, but no apu"))

\* the JSON text has what a Message must have: it is an object with id, typ,
\* type and body, and each attachment has an id and a data of exactly one
\* variant, Links with its hash
ExpParses(j) ==
    /\ j.object
    /\ \A k \in {"id", "typ", "type", "body"} : k \in DOMAIN j.fields
    /\ "attachments" \in DOMAIN j.fields
        => \A i \in 1..Len(j.fields.attachments) :
              /\ "id" \in DOMAIN j.fields.attachments[i]
              /\ "data" \in DOMAIN j.fields.attachments[i]
              /\ \/ DOMAIN j.fields.attachments[i].data = {"base64"}
                 \/ DOMAIN j.fields.attachments[i].data = {"json"}
                 \/ DOMAIN j.fields.attachments[i].data = {"links", "hash"}

TypError ==
    [kind |-> "Malformed", text |-> "typ must be application/didcomm-plain+json"]

\* C17: the plaintext is parsed and validated after the peel steps, on what
\* they left, whatever was peeled: a candidate that is no Message ends with
\* Malformed "Message is not a valid JWE, JWS or JWM", one that is a Message
\* with another typ than application/didcomm-plain+json ends with the Malformed
\* error about typ, and no Message failing either check is returned.
C17_PlaintextValidation ==
    /\ (Returned /\ failed = "")
        => IF Len(peels) < Len(input.layers) \/ ~ExpParses(input.body)
           THEN result = Err(NotValidError)
           ELSE IF input.body.fields.typ # "application/didcomm-plain+json"
           THEN result = Err(TypError)
           ELSE result.status = "ok"
    /\ (Returned /\ failed # "") => result.err \notin {Some(NotValidError), Some(TypError)}
    /\ (Returned /\ result.status = "ok")
        => /\ failed = ""
           /\ Len(peels) = Len(input.layers)
           /\ ExpParses(input.body)
           /\ Unwrap(result.msg).typ = "application/didcomm-plain+json"
           /\ MessageToJson(Unwrap(result.msg)) = input.body

C17_Witness ==
    /\ Returned
    /\ input.layers = <<CRAFT_ANON, CRAFT_JWS>>
    /\ input.body = INVALID_PLAINTEXT_MSG_WRONG_TYP
    /\ peels = <<"anoncrypt", "sign">>
    /\ result = Err(TypError)

C17_WitnessNotParsed ==
    /\ Returned
    /\ input.layers = <<CRAFT_AUTH>>
    /\ input.body = INVALID_PLAINTEXT_MSG_ATTACHMENTS_LINKS_NO_HASH
    /\ peels = <<"authcrypt">>
    /\ result = Err(NotValidError)

\* C18 as stated: a crafted input that unpack rejects is rejected with
\* Malformed "Message is not a valid JWE, JWS or JWM" whichever step rejected
\* it, so the error does not tell the steps apart.
C18_Original ==
    (Returned /\ call.op = "craft" /\ result.status = "err")
        => result = Err(NotValidError)

\* C18 amended: a crafted input in which a step finds no envelope of its kind
\* or no Message (a parse failure) is rejected at the plaintext stage with
\* Malformed "Message is not a valid JWE, JWS or JWM", whichever envelope or
\* text failed to parse; an input that a peel step recognises and rejects is
\* rejected with the error of that step, which is another one.
C18_ParseFailuresAlike ==
    /\ (Returned /\ call.op = "craft" /\ failed = ""
            /\ (Len(peels) < Len(input.layers) \/ ~ExpParses(input.body)))
        => result = Err(NotValidError)
    /\ (Returned /\ call.op = "craft" /\ failed # "")
        => /\ result.status = "err"
           /\ result # Err(NotValidError)
           /\ Len(peels) < Len(input.layers)
           /\ StepOf(input.layers[Len(peels) + 1]) = failed

C18_Witness ==
    /\ Returned
    /\ call.op = "craft"
    /\ input.layers = <<CRAFT_ANON, CRAFT_AUTH_NO_FIELD>>
    /\ peels = <<"anoncrypt">>
    /\ failed = ""
    /\ result = Err(NotValidError)

C18_WitnessStepError ==
    /\ Returned
    /\ call.op = "craft"
    /\ input.layers = <<CRAFT_AUTH_NO_APU>>
    /\ failed = "authcrypt"
    /\ result = Err(err_msg("Malformed", "SKID present, but no apu"))

\* the step of pack_signed at which a sign_by fails first: it is no DID or DID
\* URL; its DID is unknown to the DID resolver; its fragment is not in the DID
\* document; no secret is held for its key
ExpPackSignedError(sign_by) ==
    CASE sign_by = NOT_A_DID -> Some("IllegalArgument")
      [] sign_by = UNKNOWN_DID -> Some("DIDNotResolved")
      [] sign_by = ALICE_UNKNOWN_FRAGMENT -> Some("DIDUrlNotFound")
      [] sign_by = ALICE_AUTH_METHOD_NOT_IN_SECRETS -> Some("SecretNotFound")
      [] OTHER -> None

\* C19: pack_signed of the binding returns ErrorCode::Success and reports
\* the outcome by one call of the callback: error, with IllegalArgument for a
\* sign_by that is no DID or DID URL, DIDNotResolved for an unknown DID,
\* DIDUrlNotFound for a fragment absent from the DID document, SecretNotFound
\* for a key without a secret, the first of these steps that fails; success is
\* not called in these cases, and is called in the others.
C19_PackSignedErrors ==
    /\ (call.op = "binding_pack_signed" /\ pc = "spawned")
        => /\ binding.code = Some("Success")
           /\ binding.cb = <<>>
    /\ (call.op = "binding_pack_signed" /\ pc # "spawned")
        => /\ binding.code = Some("Success")
           /\ Len(binding.cb) = 1
           /\ binding.cb[1].err = ExpPackSignedError(Unwrap(call.sign_by))
           /\ binding.cb[1].fn
                = (IF IsSome(ExpPackSignedError(Unwrap(call.sign_by)))
                   THEN "error" ELSE "success")
           /\ IsSome(binding.cb[1].result) = (binding.cb[1].fn = "success")
           /\ (pc = "pack_failed") = (binding.cb[1].fn = "error")

C19_Witness ==
    /\ call.op = "binding_pack_signed"
    /\ call.sign_by = Some(ALICE_AUTH_METHOD_NOT_IN_SECRETS)
    /\ pc = "pack_failed"
    /\ Len(binding.cb) = 1
    /\ binding.cb[1].fn = "error"
    /\ binding.cb[1].err = Some("SecretNotFound")

\* unpack run from its call to its return with nothing else running
UnpackAlone(s, o, k) ==
    IF IsSome(ForwardUnsupported(o)) THEN Err(Unwrap(ForwardUnsupported(o)))
    ELSE
    LET a == try_unpack_anoncrypt(s, k, o, InitMetadata)
        m1 == unwrap_or(a.out, s)
        b == try_unpack_authcrypt(m1, k, o, a.metadata)
        m2 == unwrap_or(b.out, m1)
        c == try_unapck_sign(m2, o, b.metadata)
        m3 == unwrap_or(c.out, m2)
    IN  IF IsSome(a.err) THEN Err(Unwrap(a.err))
        ELSE IF IsSome(b.err) THEN Err(Unwrap(b.err))
        ELSE IF IsSome(c.err) THEN Err(Unwrap(c.err))
        ELSE ParseAndValidate(m3, c.metadata)

\* C20: invocations of pack and unpack that run interleaved, suspended at
\* their awaits, over the same read-only resolvers, each return what they
\* return when run alone: the result depends on the arguments of the
\* invocation and on the resolvers only.
C20_Reentrant ==
    \A i \in 1..NInvocations :
        (inv[i].pc = "done")
            => IF IsSome(inv[i].pack)
               THEN inv[i].packed
                      = Some(pack_encrypted(Unwrap(inv[i].pack).msg, Unwrap(inv[i].pack).to,
                                            Unwrap(inv[i].pack).from,
                                            Unwrap(inv[i].pack).sign_by,
                                            DefaultPackEncryptedOptions,
                                            ALICE_AND_BOB_SECRETS))
               ELSE inv[i].result
                      = UnpackAlone(inv[i].input, inv[i].options, inv[i].secrets)

C20_Witness ==
    /\ inv[1].pc = "sign"
    /\ Len(inv[1].input.layers) = 3
    /\ inv[1].metadata.encrypted
    /\ inv[2].pc = "done"
    /\ inv[2].input = pack_plaintext(MESSAGE_SIMPLE).out
    /\ inv[2].result = Ok(MESSAGE_SIMPLE, PlaintextMetadata)

\* the steps of unpack after its start
UnpackSteps ==
    {"anoncrypt", "authcrypt", "sign", "plaintext"}

MetadataBooleans ==
    {"encrypted", "authenticated", "non_repudiation", "anonymous_sender",
     "re_wrapped_in_forward"}
\* the optional fields one peel step alone sets
MetadataOwnFields ==
    {"enc_alg_anon", "enc_alg_auth", "encrypted_from_kid", "sign_alg", "sign_from",
     "signed_message"}

\* the peel step that sets an optional field
StepOfField(f) ==
    CASE f = "enc_alg_anon" -> "anoncrypt"
      [] f \in {"enc_alg_auth", "encrypted_from_kid"} -> "authcrypt"
      [] OTHER -> "sign"

\* a step of unpack sets no boolean back to false, changes an optional field
\* of one step only from None to Some and only in that step, never clears
\* encrypted_to_kids, and a success returns the metadata as the steps left it
AccumulatesStep ==
    pc \in UnpackSteps =>
        /\ \A b \in MetadataBooleans : metadata[b] => metadata'[b]
        /\ \A f \in MetadataOwnFields :
            /\ IsSome(metadata[f]) => metadata'[f] = metadata[f]
            /\ metadata'[f] # metadata[f] => pc = StepOfField(f)
        /\ IsSome(metadata.encrypted_to_kids) => IsSome(metadata'.encrypted_to_kids)
        /\ metadata'.encrypted_to_kids # metadata.encrypted_to_kids
            => pc \in {"anoncrypt", "authcrypt"}
        /\ (pc' = "done" /\ result'.status = "ok")
            => Unwrap(result'.metadata) = metadata

C21_WitnessReplaced ==
    /\ pc = "sign"
    /\ peels = <<"anoncrypt", "authcrypt">>
    /\ metadata.encrypted_to_kids # Some(input.layers[1].kids)

\* what the peel step at pc returns
StepResult ==
    CASE pc = "anoncrypt" -> try_unpack_anoncrypt(msg, secrets, options, metadata)
      [] pc = "authcrypt" -> try_unpack_authcrypt(msg, secrets, options, metadata)
      [] OTHER -> try_unapck_sign(msg, options, metadata)

\* the peel step at pc fails
StepFails ==
    pc \in {"anoncrypt", "authcrypt", "sign"} /\ IsSome(StepResult.err)

\* the step of a failing peel: unpack returns the error of the step with
\* neither Message nor metadata, having made the resolver calls of that step
\* and peeled nothing more; and nothing follows a return
ShortCircuitStep ==
    /\ pc # "done"
    /\ StepFails =>
        /\ pc' = "done"
        /\ result' = Err(Unwrap(StepResult.err))
        /\ IsNone(result'.msg) /\ IsNone(result'.metadata)
        /\ calls' = calls \o StepResult.calls
        /\ peels' = peels
        /\ failed' = pc

\* C22: unpack short-circuits on the first failure: when a peel step fails,
\* unpack returns that error at once; no later peel step and no plaintext
\* validation follows, no further resolver call is made, nothing is retried,
\* and neither a Message nor a metadata is returned
C22_ShortCircuit ==
    [][ShortCircuitStep]_vars

\* the authcrypt peel failed after the anoncrypt peel and its resolver calls
C22_Witness ==
    /\ pc = "done"
    /\ failed = "authcrypt"
    /\ peels = <<"anoncrypt">>
    /\ calls # <<>>
    /\ result.status = "err"
    /\ IsNone(result.metadata)

\* kind and alg of the envelopes of a string, outermost first
LayerKinds(str) ==
    [i \in 1..Len(str.layers) |-> <<str.layers[i].kind, str.layers[i].alg>>]

\* the envelopes pack_encrypted is to make for from, sign_by and
\* protect_sender, outermost first
ExpLayerKinds(from, sign_by, protect_sender) ==
    (IF IsSome(from) /\ protect_sender THEN <<<<"jwe", ECDH_ES_A256KW>>>> ELSE <<>>)
    \o (IF IsSome(from) THEN <<<<"jwe", ECDH_1PU_A256KW>>>>
        ELSE <<<<"jwe", ECDH_ES_A256KW>>>>)
    \o (IF IsSome(sign_by)
        THEN <<<<"jws", ExpSignAlg(ExpSignKid(Unwrap(sign_by)))>>>> ELSE <<>>)

\* C23: pack_encrypted composes sign, then authcrypt, then anoncrypt, innermost
\* first: with sign_by the payload of the encryption is the JWS of the message,
\* with from and protect_sender the authcrypt JWE is the payload of the
\* anoncrypt JWE; and unpack of a string packed with all three, at a recipient
\* holding a secret of it, peels anoncrypt, authcrypt, sign in that order and
\* reports anonymous_sender, authenticated, non_repudiation, encrypted all true
\* and enc_alg_anon, enc_alg_auth, encrypted_from_kid, sign_from, sign_alg set
C23_PackComposition ==
    (call.op = "pack_encrypted" /\ IsNone(call.ret.err)) =>
        /\ LayerKinds(input)
            = ExpLayerKinds(call.from, call.sign_by, call.options.protect_sender)
        /\ input.body = MessageToJson(call.msg)
        /\ IsSome(call.sign_by) =>
            Str(<<input.layers[Len(input.layers)]>>, input.body) = ExpJws
        /\ (IsSome(call.from) /\ call.options.protect_sender) =>
            /\ input.layers[1].alg = ECDH_ES_A256KW
            /\ IsJwe(Payload(input))
            /\ Payload(input).layers[1].alg = ECDH_1PU_A256KW
            /\ Payload(input).layers[1].skid
                = Some(ExpFromKid(Unwrap(call.from), call.to))
        /\ (ReturnedEncrypted /\ IsSome(call.from) /\ call.options.protect_sender
            /\ IsSome(call.sign_by)) =>
            /\ result.status = "ok"
            /\ result.msg = Some(call.msg)
            /\ peels = <<"anoncrypt", "authcrypt", "sign">>
            /\ LET md == Unwrap(result.metadata)
               IN  /\ md.anonymous_sender /\ md.authenticated
                   /\ md.non_repudiation /\ md.encrypted
                   /\ IsSome(md.enc_alg_anon) /\ IsSome(md.enc_alg_auth)
                   /\ md.encrypted_from_kid
                       = Some(ExpFromKid(Unwrap(call.from), call.to))
                   /\ md.sign_from = Some(ExpSignKid(Unwrap(call.sign_by)))
                   /\ md.sign_alg = Some(ExpSignAlg(ExpSignKid(Unwrap(call.sign_by))))

\* unpack of pack_encrypted(from alice, sign_by alice's P-256 key,
\* protect_sender) returned
C23_Witness ==
    /\ ReturnedEncrypted
    /\ call.from = Some(ALICE_DID)
    /\ call.sign_by = Some(ALICE_AUTH_METHOD_P256)
    /\ call.options.protect_sender
    /\ Len(input.layers) = 3
    /\ result.status = "ok"

\* the JWE envelopes of a string
JweLayers(str) ==
    {i \in 1..Len(str.layers) : str.layers[i].kind = "jwe"}

\* from and to name keys of different curve families
MixesFamilies(from, to) ==
    /\ IsSome(from)
    /\ IsSome(did_or_url(Unwrap(from))[2]) /\ IsSome(did_or_url(to)[2])
    /\ Unwrap(from) \in Range(ALICE_DID_DOC.key_agreements)
    /\ to \in Range(BOB_DID_DOC.key_agreements)
    /\ Crv(Unwrap(from)) # Crv(to)

\* C24: every JWE made by pack_encrypted lists recipient keys of one curve
\* family: all key-agreement keys of that family for a bare DID (the family
\* of the sender's key for authcrypt, of the DID's first key otherwise), the
\* named key alone for a DID URL; a sender key and a recipient key of
\* different families are rejected; and unpack reports as encrypted_to_kids
\* the selected kids in their order
C24_OneCurveFamily ==
    call.op = "pack_encrypted" =>
        /\ IsNone(call.ret.err) =>
            /\ JweLayers(input) # {}
            /\ \A i \in JweLayers(input) :
                /\ input.layers[i].kids = call.ret.to_kids
                /\ \A k \in Range(input.layers[i].kids) :
                    Crv(k) = Crv(input.layers[i].kids[1])
                /\ IsSome(input.layers[i].skid) =>
                    Crv(Unwrap(input.layers[i].skid)) = Crv(input.layers[i].kids[1])
            /\ call.ret.to_kids = ExpToKids(call.to, call.from)
            /\ IsSome(did_or_url(call.to)[2]) => call.ret.to_kids = <<call.to>>
            /\ IsNone(did_or_url(call.to)[2]) =>
                LET crv == IF IsSome(call.from)
                           THEN Crv(Unwrap(call.ret.from_kid))
                           ELSE Crv(BOB_DID_DOC.key_agreements[1])
                IN  call.ret.to_kids
                        = SelectSeq(BOB_DID_DOC.key_agreements, LAMBDA k : Crv(k) = crv)
        /\ MixesFamilies(call.from, call.to) =>
            /\ IsSome(call.ret.err)
            /\ IsNone(call.sign_by) =>
                Unwrap(call.ret.err).kind = "NoCompatibleCrypto"
        /\ ReturnedEncrypted =>
            /\ result.status = "ok"
            /\ Unwrap(result.metadata).encrypted_to_kids = Some(call.ret.to_kids)

\* unpack of an authcrypt from alice's P-256 key to the DID of bob returned:
\* the recipients are bob's two P-256 keys
C24_Witness ==
    /\ ReturnedEncrypted
    /\ call.from = Some(ALICE_VERIFICATION_METHOD_KEY_AGREEM_P256)
    /\ call.to = BOB_DID
    /\ result.status = "ok"
    /\ Unwrap(result.metadata).encrypted_to_kids
        = Some(<<BOB_SECRET_KEY_AGREEMENT_KEY_P256_1,
                 BOB_SECRET_KEY_AGREEMENT_KEY_P256_2>>)

\* pack_encrypted from alice's X25519 key to a P-256 key of bob was rejected
C24_WitnessRejected ==
    /\ pc = "pack_failed"
    /\ call.op = "pack_encrypted"
    /\ MixesFamilies(call.from, call.to)
    /\ IsSome(call.ret.err)

\* the callback of a finished call was called once, with the outcome of the
\* future of that call
CalledBackOnce(t) ==
    /\ Len(t.cb) = 1
    /\ t.cb[1].fn = (IF IsSome(FutureOf(t.args).err) THEN "error" ELSE "success")
    /\ t.cb[1].fn = "success" => t.cb[1].result = Some(FutureOf(t.args).out)
    /\ t.cb[1].fn = "error" =>
        /\ t.cb[1].err = Some(Unwrap(FutureOf(t.args).err).kind)
        /\ t.cb[1].err_msg = Some(Unwrap(FutureOf(t.args).err).text)

\* C25: each call of a pack function of the binding returns ErrorCode::Success
\* at once, whatever the outcome; its callback is not called before its task
\* has finished, and then exactly one of success and error has been called,
\* once, with the outcome of that call and not of another running beside it;
\* nothing is called afterwards; and, the executor running its tasks and the
\* resolvers answering, every spawned task gets there
C25_BindingCallbacks ==
    /\ [](\A i \in 1..NInvocations :
            /\ tasks[i].pc # "idle" => tasks[i].code = Some("Success")
            /\ tasks[i].pc \in {"idle", "spawned", "awaiting"} => tasks[i].cb = <<>>
            /\ tasks[i].pc = "done" => CalledBackOnce(tasks[i]))
    /\ [][\A i \in 1..NInvocations :
            tasks[i].pc = "done" => tasks'[i] = tasks[i]]_vars
    /\ \A i \in 1..NInvocations :
            (tasks[i].pc = "spawned") ~> (tasks[i].pc = "done" /\ Len(tasks[i].cb) = 1)

\* two calls side by side have finished, one with success, one with error
C25_Witness ==
    /\ tasks[1].pc = "done" /\ tasks[2].pc = "done"
    /\ tasks[1].code = Some("Success") /\ tasks[2].code = Some("Success")
    /\ tasks[1].cb # <<>> /\ tasks[2].cb # <<>>
    /\ tasks[1].cb[1].fn = "error"
    /\ tasks[2].cb[1].fn = "success"

\* the resolver calls of the three peel steps of unpack run alone on string
\* s with options o and secrets k: those of the anoncrypt peel, of the
\* authcrypt peel, of the sign peel; a step after a failed one makes none
CallsAlone(s, o, k) ==
    LET a == try_unpack_anoncrypt(s, k, o, InitMetadata)
        m1 == unwrap_or(a.out, s)
        b == try_unpack_authcrypt(m1, k, o, a.metadata)
        m2 == unwrap_or(b.out, m1)
        c == try_unapck_sign(m2, o, b.metadata)
    IN  <<a.calls,
          IF IsSome(a.err) THEN <<>> ELSE b.calls,
          IF IsSome(a.err) \/ IsSome(b.err) THEN <<>> ELSE c.calls>>

\* the resolver operations of a sequence of calls
OpsOf(cs) ==
    {cs[i].op : i \in 1..Len(cs)}

\* C26: within one invocation the resolver calls are made one after another
\* in a fixed order: in unpack the secrets-resolver calls of the anoncrypt
\* peel, then the DID-resolver and secrets-resolver calls of the authcrypt
\* peel, then the DID-resolver calls of the sign peel; the sequence of calls
\* and the result are functions of the input, the options and the resolvers'
\* contents, and so is the result of a pack call
C26_ResolverCallsInOrder ==
    /\ (pc \in UnpackSteps \/ Returned) =>
        LET ca == CallsAlone(input, options, secrets)
        IN  /\ OpsOf(ca[1]) \subseteq {"find_secrets", "get_secret"}
            /\ OpsOf(ca[2]) \subseteq {"resolve", "find_secrets", "get_secret"}
            /\ ca[2] # <<>> => ca[2][1].op = "resolve"
            /\ \A i \in 2..Len(ca[2]) : ca[2][i].op # "resolve"
            /\ OpsOf(ca[3]) \subseteq {"resolve"}
            /\ pc = "anoncrypt" => calls = <<>>
            /\ pc = "authcrypt" => calls = ca[1]
            /\ pc = "sign" => calls = ca[1] \o ca[2]
            /\ pc \in {"plaintext", "done"} => calls = ca[1] \o ca[2] \o ca[3]
    /\ Returned => result = UnpackAlone(input, options, secrets)
    /\ call.op = "pack_signed" =>
        call.ret = pack_signed(call.msg, Unwrap(call.sign_by), ALICE_SECRETS)
    /\ call.op = "pack_encrypted" =>
        call.ret = pack_encrypted(call.msg, call.to, call.from, call.sign_by,
                                  call.options, ALICE_SECRETS)

\* unpack returned after the three peels, each with resolver calls
C26_Witness ==
    /\ Returned
    /\ peels = <<"anoncrypt", "authcrypt", "sign">>
    /\ CallsAlone(input, options, secrets)[1] # <<>>
    /\ CallsAlone(input, options, secrets)[2] # <<>>
    /\ CallsAlone(input, options, secrets)[3] # <<>>
    /\ calls[1].op = "find_secrets"
    /\ calls[Len(calls)].op = "resolve"

\* unpack returned Ok
Succeeded ==
    pc = "done" /\ result.status = "ok"

\* C27: in every successful unpack result the signature fields agree:
\* non_repudiation is true exactly when sign_from, sign_alg and signed_message
\* are all Some, and exactly when the sign peel succeeded; when no signature
\* was peeled the three are None and non_repudiation is false
C27_SignatureFieldsConsistent ==
    Succeeded =>
        LET md == Unwrap(result.metadata)
            signed == \E i \in 1..Len(peels) : peels[i] = "sign"
        IN  /\ md.non_repudiation
                <=> (IsSome(md.sign_from) /\ IsSome(md.sign_alg)
                     /\ IsSome(md.signed_message))
            /\ md.non_repudiation <=> signed
            /\ ~signed =>
                /\ IsNone(md.sign_from) /\ IsNone(md.sign_alg)
                /\ IsNone(md.signed_message)
                /\ ~md.non_repudiation

\* unpack of a pack_signed string succeeded
C27_Witness ==
    /\ Succeeded
    /\ call.op = "pack_signed"
    /\ peels = <<"sign">>
    /\ Unwrap(result.metadata).non_repudiation
    /\ Unwrap(result.metadata).signed_message = Some(input)

\* unpack of an authcrypted string without signature succeeded
C27_WitnessUnsigned ==
    /\ Succeeded
    /\ peels = <<"authcrypt">>
    /\ ~Unwrap(result.metadata).non_repudiation
    /\ IsNone(Unwrap(result.metadata).sign_from)

\* C28: in every successful unpack result the encryption fields agree:
\* encrypted is true exactly when encrypted_to_kids is Some and one of
\* enc_alg_anon, enc_alg_auth is Some; anonymous_sender is true exactly when
\* enc_alg_anon is Some, that is when an anoncrypt layer was peeled; and
\* encrypted_from_kid is Some exactly when enc_alg_auth is Some, that is when
\* an authcrypt layer was peeled
C28_EncryptionFieldsConsistent ==
    Succeeded =>
        LET md == Unwrap(result.metadata)
            anon == \E i \in 1..Len(peels) : peels[i] = "anoncrypt"
            auth == \E i \in 1..Len(peels) : peels[i] = "authcrypt"
        IN  /\ md.encrypted
                <=> (IsSome(md.encrypted_to_kids)
                     /\ (IsSome(md.enc_alg_anon) \/ IsSome(md.enc_alg_auth)))
            /\ md.encrypted <=> (anon \/ auth)
            /\ md.anonymous_sender <=> IsSome(md.enc_alg_anon)
            /\ md.anonymous_sender <=> anon
            /\ IsSome(md.encrypted_from_kid) <=> IsSome(md.enc_alg_auth)
            /\ IsSome(md.enc_alg_auth) <=> auth

\* unpack of a sender-protected authcrypt succeeded
C28_Witness ==
    /\ Succeeded
    /\ call.op = "pack_encrypted"
    /\ peels = <<"anoncrypt", "authcrypt">>
    /\ Unwrap(result.metadata).encrypted
    /\ Unwrap(result.metadata).anonymous_sender
    /\ IsSome(Unwrap(result.metadata).encrypted_from_kid)

\* unpack of a plaintext succeeded
C28_WitnessPlaintext ==
    /\ Succeeded
    /\ peels = <<>>
    /\ ~Unwrap(result.metadata).encrypted
    /\ IsNone(Unwrap(result.metadata).encrypted_to_kids)

\* C29: in every successful unpack result authenticated is true exactly when
\* an authcrypt layer or a signature was peeled, that is when enc_alg_auth or
\* sign_alg is Some; so non_repudiation implies authenticated, and a message
\* that was only anoncrypted or only plaintext is never reported authenticated
C29_AuthenticatedConsistent ==
    Succeeded =>
        LET md == Unwrap(result.metadata)
        IN  /\ md.authenticated
                <=> (IsSome(md.enc_alg_auth) \/ IsSome(md.sign_alg))
            /\ md.authenticated
                <=> \E i \in 1..Len(peels) : peels[i] \in {"authcrypt", "sign"}
            /\ md.non_repudiation => md.authenticated
            /\ peels \in {<<>>, <<"anoncrypt">>} => ~md.authenticated

\* unpack of an anoncrypted, signed message without sender succeeded
C29_Witness ==
    /\ Succeeded
    /\ call.op = "pack_encrypted"
    /\ IsNone(call.from)
    /\ peels = <<"anoncrypt", "sign">>
    /\ Unwrap(result.metadata).authenticated
    /\ IsNone(Unwrap(result.metadata).enc_alg_auth)

\* unpack of an anoncrypted message without signature succeeded
C29_WitnessAnonOnly ==
    /\ Succeeded
    /\ call.op = "pack_encrypted"
    /\ peels = <<"anoncrypt">>
    /\ ~Unwrap(result.metadata).authenticated

\* C30: re_wrapped_in_forward is false in the metadata of every successful
\* unpack, whatever the input and whichever layers were peeled
C30_NeverReWrappedInForward ==
    Succeeded => ~Unwrap(result.metadata).re_wrapped_in_forward

\* unpack of a signed, authcrypted, sender-protected message succeeded
C30_Witness ==
    /\ Succeeded
    /\ Len(peels) = 3
    /\ ~Unwrap(result.metadata).re_wrapped_in_forward
    /\ ~options.unwrap_re_wrapping_forward

\* unpack of a crafted plaintext succeeded
C30_WitnessCrafted ==
    /\ Succeeded
    /\ call.op = "craft"
    /\ peels = <<>>
    /\ ~Unwrap(result.metadata).re_wrapped_in_forward

====
